---------------------------- MODULE Spec2Model ----------------------------
(***************************************************************************)
(* PebbleLiveSession of live.py: the toggle-driven controller, the session *)
(* future, the run_live_session task with its TaskGroup, and the five      *)
(* relay tasks (send_realtime, listen_audio, get_frames, receive_audio,    *)
(* play_audio) that share the two asyncio queues.                          *)
(*                                                                         *)
(* Threads: the keyboard thread and the Pebble thread both call            *)
(* _toggle_session; everything else runs on the single event-loop thread,  *)
(* one callback (one task step, from one await to the next) at a time, in  *)
(* the order in which the callbacks became ready.                          *)
(*                                                                         *)
(* The other scripts of the repository are programs of their own, each     *)
(* with its variables, its actions and its specification:                  *)
(*   AnalyzerSpec    pi_camera_analyzer.py, the loop of main               *)
(*   ControllerSpec  pebble_gemini_controller.py, PebbleGeminiController   *)
(*   TriggerSpec     pebble_voice.py, PebbleCameraTrigger, whose handler   *)
(*                   is called by the Pebble thread and the main thread    *)
(*   BridgeSpec      pebble_camera_trigger.py, PebbleGeminiBridge          *)
(***************************************************************************)
EXTENDS Integers, Sequences, FiniteSets, TLC

\* ---------------------------------------------------------------- bounds
\* Sessions that may be started in one run of the program.
MaxSessions == 2
\* Toggle signals (Enter presses plus middle-button packets) in one run; in
\* the other scripts, button presses in one run.
MaxPresses == 3
\* Frames the camera delivers in the capture scenario.
MaxFrames == 1
\* Slack of microphone chunks beyond the outbound queue's capacity.
ExtraAudio == 2
\* Remote reply messages in the reply scenario.
MaxMsgs == 3
\* Device or remote faults the environment injects in one run.
MaxFaults == 1
\* Capture/analyse cycles in one run of pi_camera_analyzer.py.
MaxCycles == 3
\* pebble_gemini_controller.py: voice sessions the watch initiates in one run,
\* and audio chunks it sends.
MaxVoiceSessions == 2
MaxChunks == 2
\* pebble_voice.py: frames the audio callback delivers in one run.
MaxRecorded == 2
\* pebble_camera_trigger.py: session-ended signals of the watch in one run.
MaxSignals == 3

\* asyncio.Queue(maxsize=10)
OutQueueMaxsize == 10

Sessions == 1..MaxSessions
Threads == {"keyboard", "pebble"}
Kinds == {"send_realtime", "listen_audio", "get_frames", "receive_audio", "play_audio"}
Main == "run_live_session"
\* A task that has finished, however it finished.
Terminal == {"done", "cancelled", "failed"}

VARIABLES
    is_session_running,  \* self.is_session_running
    session_future,      \* self._session_future: 0 is None, else the session whose future it is
    session,             \* self._session: 0 is None, else the session whose remote handle it is
    out_queue_ref,       \* self._out_queue: 0 is None, else the session that created the queue
    audio_in_queue_ref,  \* self._audio_in_queue, likewise
    audio_stream,        \* self._audio_stream: 0 is None, else the session whose microphone stream it is
    picam_started,       \* self._picam2.started
    tpc,                 \* position of each thread inside _toggle_session
    env,                 \* the run's environment: pebble, and what may still happen (presses, frames, audio, msgs, faults)
    nsess,               \* sessions started so far
    fut,                 \* state of each session's concurrent future
    ready,               \* the loop's ready callbacks, in the order they were scheduled
    main,                \* position of each run_live_session task
    errors,              \* a child of the TaskGroup raised (ExceptionGroup pending)
    pc,                  \* position of each relay task
    held,                \* the queue or session a task waits on (evaluated when the call was made)
    out_queue,           \* contents of each session's outbound queue
    out_getters,         \* per outbound queue, the tasks suspended in get, oldest first
    out_putters,         \* per outbound queue, the tasks suspended in put, oldest first
    audio_in_queue,      \* contents of each session's inbound queue
    in_getters,          \* per inbound queue, the tasks suspended in get, oldest first
    mic,                 \* each session's microphone stream
    spk,                 \* each session's speaker stream
    nput,                \* items enqueued so far on the outbound queues
    forwarded,           \* per remote session, the items handed to send_realtime_input, in call order
    received,            \* the audio chunks received so far, in order of arrival
    played,              \* chunks handed to stream.write, in call order
    stale,               \* chunks that were not yet handed to stream.write when their turn completed
    turns,               \* turn-complete signals receive_audio has observed, per session
    ended,               \* how often _session_done_callback ran, per session
    stops,               \* how often a toggle asked to cancel each session
    last_toggle,         \* the branch the latest call of _toggle_session took: "none", "start" or "stop"
    log,                 \* how often each message was printed, each notification sent
    reported,            \* per session, the exceptions printed at lines 363 and 380, in order
    raised,              \* per session, the exception run_live_session ended with ("none": it returned)
    aborted              \* per session, the task's cancellation reached the TaskGroup

ctlVars == <<is_session_running, session_future, tpc, nsess, env>>
refVars == <<session, out_queue_ref, audio_in_queue_ref, audio_stream>>
futVars == <<fut, main, errors>>
taskVars == <<pc, held>>
outVars == <<out_queue, out_getters, out_putters, nput, forwarded>>
inVars == <<audio_in_queue, in_getters, received, played, stale, turns>>
devVars == <<picam_started, mic, spk>>
histVars == <<ended, stops, last_toggle>>
outcomeVars == <<reported, raised, aborted>>
togVars == <<histVars, log, outcomeVars>>
liveVars == <<ctlVars, refVars, futVars, ready, taskVars, outVars, inVars, devVars, togVars>>

\* The other scripts of the repository are programs of their own. Each has
\* its variables and its specification; a specification leaves the variables
\* of the other programs as they are.
VARIABLES
    pca_pc,              \* pi_camera_analyzer.main: where the loop of lines 59-115 stands
    pca_image,           \* captured_image.jpg exists
    pca_started,         \* picam2.started
    pca_pending,         \* the exception that is propagating out of the cycle ("none": none)
    pca_log,             \* what each cycle so far printed: an answer, "no content" or an error
    pca_enters           \* Enter presses still to come

analyzerVars == <<pca_pc, pca_image, pca_started, pca_pending, pca_log, pca_enters>>

VARIABLES
    pgc_prompts,         \* pebble_gemini_controller: prompt threads started and not yet run
    pgc_listening,       \* the audio_data and session_end handlers are registered
    pgc_buffer,          \* _audio_buffer: the chunks in it, in order
    pgc_file,            \* dictated_audio.ogg: whether it exists, and what was written
    pgc_heard,           \* the chunks the watch sent since the last session setup
    pgc_analyses,        \* _analyze_audio threads started and not yet finished
    pgc_sent,            \* notifications sent to the watch, counted by body
    pgc_watch,           \* the watch: "idle" or in a voice "session"
    pgc_env              \* what may still happen: presses, sessions, chunks

controllerVars ==
    <<pgc_prompts, pgc_listening, pgc_buffer, pgc_file, pgc_heard, pgc_analyses,
      pgc_sent, pgc_watch, pgc_env>>

VARIABLES
    pct_is_recording,    \* PebbleCameraTrigger._is_recording
    pct_audio_stream,    \* _audio_stream: "none", or the state of the stream it refers to
    pct_audio_frames,    \* frames in _audio_frames
    pct_thread,          \* _image_capture_thread: a capture thread, 0 for None
    pct_captures,        \* the capture threads launched so far: "running" or "finished"
    pct_cycle,           \* capture threads launched by first presses since the cycle began
    pct_analyses,        \* _capture_and_analyze threads started and not yet finished
    pct_files,           \* which of the image and the audio file exist
    pct_sent,            \* notifications sent to the watch, counted by body
    pct_pc,              \* where each caller of _raw_packet_handler stands
    pct_local,           \* the locals of each caller
    pct_env              \* what may still happen: presses, faults

triggerVars ==
    <<pct_is_recording, pct_audio_stream, pct_audio_frames, pct_thread, pct_captures,
      pct_cycle, pct_analyses, pct_files, pct_sent, pct_pc, pct_local, pct_env>>

VARIABLES
    pgb_is_recording,    \* PebbleGeminiBridge._is_recording
    pgb_audio_file,      \* _audio_file: "none", or the state of the file object
    pgb_raw,             \* the raw audio file: whether it exists, and the chunks in it
    pgb_processing,      \* _process_audio_with_gemini threads started and not yet finished
    pgb_images,          \* where each _capture_and_analyze_image thread stands, by press
    pgb_image,           \* whether captured_image.jpg exists
    pgb_sent,            \* notifications and prompts sent to the watch, counted by title
    pgb_env              \* what may still happen: presses, signals, chunks, faults

bridgeVars ==
    <<pgb_is_recording, pgb_audio_file, pgb_raw, pgb_processing, pgb_images, pgb_image,
      pgb_sent, pgb_env>>

\* The end of live.py: main's finally block calls shutdown (lines 456-475).
\* The steps of Next belong to the run before it and leave these as they are.
VARIABLES
    shut,                \* where the main thread stands: "no" (in run), then inside shutdown
    loop_state           \* the event loop: "running", "stopping" (stop() was called) or "stopped"

haltVars == <<shut, loop_state>>

scriptVars == <<analyzerVars, controllerVars, triggerVars, bridgeVars, haltVars>>

vars == <<liveVars, scriptVars>>

\* What a step of one program leaves alone: the other programs.
analyzerRest == <<liveVars, controllerVars, triggerVars, bridgeVars, haltVars>>
controllerRest == <<liveVars, analyzerVars, triggerVars, bridgeVars, haltVars>>
triggerRest == <<liveVars, analyzerVars, controllerVars, bridgeVars, haltVars>>
bridgeRest == <<liveVars, analyzerVars, controllerVars, triggerVars, haltVars>>

\* pi_camera_analyzer.main, lines 47-57: the camera is started and the loop
\* waits for Enter; no image file is there.
AnalyzerInit ==
    /\ pca_pc = "input"
    /\ pca_image = FALSE
    /\ pca_started = TRUE
    /\ pca_pending = "none"
    /\ pca_log = <<>>
    /\ pca_enters = MaxCycles

\* The bodies of the notifications pebble_gemini_controller.py sends (lines
\* 145, 168, 180, 218 and 222).
ControllerBodies ==
    {"Reply with voice to dictate your prompt.", "Listening...", "Processing...",
     "Transcription", "Gemini Error"}

\* PebbleGeminiController.__init__ and run, lines 126-131 and 234-239: nothing
\* recorded, the session_setup handler and the raw handler registered.
ControllerInit ==
    /\ pgc_prompts = 0
    /\ pgc_listening = FALSE
    /\ pgc_buffer = <<>>
    /\ pgc_file = [exists |-> FALSE, content |-> <<>>]
    /\ pgc_heard = <<>>
    /\ pgc_analyses = 0
    /\ pgc_sent = [b \in ControllerBodies |-> 0]
    /\ pgc_watch = "idle"
    /\ pgc_env = [presses |-> MaxPresses, sessions |-> MaxVoiceSessions,
                  chunks |-> MaxChunks]

\* pebble_voice.py, PebbleCameraTrigger.run (lines 442-469): the handler is
\* called by the thread of run_sync for a packet of the watch, and by the main
\* thread for Enter (line 466).
Callers == {"pebble", "keyboard"}

\* The bodies of the notifications PebbleCameraTrigger sends.
TriggerBodies ==
    {"Capturing & Recording...", "Audio error. Check mic.", "Recording failed.",
     "Analyzing...", "Image file missing.", "Gemini Result"}

\* The locals of a caller that is not inside the handler.
NoLocals == [mine |-> 0, failed |-> FALSE, joined |-> 0]

\* PebbleCameraTrigger.__init__, lines 192-207.
TriggerInit ==
    /\ pct_is_recording = FALSE
    /\ pct_audio_stream = "none"
    /\ pct_audio_frames = 0
    /\ pct_thread = 0
    /\ pct_captures = <<>>
    /\ pct_cycle = {}
    /\ pct_analyses = 0
    /\ pct_files = [image |-> FALSE, audio |-> FALSE]
    /\ pct_sent = [b \in TriggerBodies |-> 0]
    /\ pct_pc = [h \in Callers |-> "idle"]
    /\ pct_local = [h \in Callers |-> NoLocals]
    /\ pct_env = [presses |-> MaxPresses, faults |-> MaxFaults, frames |-> MaxRecorded]

\* What PebbleGeminiBridge sends to the watch: the voice prompt (lines 130-160)
\* and the notifications, by title.
BridgeTitles ==
    {"Voice Command", "Image Trigger", "Image Result", "Audio Result", "Gemini Error"}

\* PebbleGeminiBridge.__init__ and connect, lines 92-119.
BridgeInit ==
    /\ pgb_is_recording = FALSE
    /\ pgb_audio_file = "none"
    /\ pgb_raw = [exists |-> FALSE, chunks |-> 0]
    /\ pgb_processing = 0
    /\ pgb_images = [i \in 1 .. MaxPresses |-> "none"]
    /\ pgb_image = FALSE
    /\ pgb_sent = [b \in BridgeTitles |-> 0]
    /\ pgb_env = [presses |-> MaxPresses, signals |-> MaxSignals,
                  chunks |-> MaxChunks, faults |-> MaxFaults]

\* Every script as it stands when its main loop is entered.
ScriptsInit == AnalyzerInit /\ ControllerInit /\ TriggerInit /\ BridgeInit

\* live.py before shutdown: run has started the loop thread (lines 419-422).
HaltInit == shut = "no" /\ loop_state = "running"

Range(f) == {f[i] : i \in DOMAIN f}

\* The messages printed once per failed or printed item: lines 273, 305, 324
\* and 315 (a text fragment of the reply), and line 378; and the bodies of
\* the notifications sent to the watch at lines 358 and 386.
Messages == {"Error getting frame", "Error sending data", "Error receiving audio",
             "text", "Session cancelled by user", "Session Active", "Session Ended"}

\* print(msg ...)
prints(msg) == log' = [log EXCEPT ![msg] = @ + 1]

\* A notification service that is there whether or not the watch connected.
notifications_unguarded == TRUE

\* self._notifications: connect (lines 238-248) sets it when the watch
\* connected and leaves it None when the connection failed.
notifications == env.pebble

\* Lines 357-358 and 385-386: the notification is sent when there is a
\* notification service. lg is the log before it.
notifies(lg, body) == IF notifications THEN [lg EXCEPT ![body] = @ + 1] ELSE lg

\* ------------------------------------------------------------------ Init
\* What the environment does in a run. pebble says whether connect() reached
\* the watch (lines 238-248); without it only the keyboard thread toggles.
\* backport says whether the interpreter is older than 3.11 (lines 90-93).
\* The other fields count what may still happen.
\* The camera and the microphone fill the outbound queue past its capacity.
Capture ==
    [pebble |-> FALSE, presses |-> 1, frames |-> MaxFrames,
     audio |-> OutQueueMaxsize + ExtraAudio, msgs |-> 0, faults |-> 0, backport |-> FALSE]
\* The microphone fills the queue, and Enter is pressed a second time.
CaptureStop ==
    [pebble |-> FALSE, presses |-> 2, frames |-> 0,
     audio |-> OutQueueMaxsize + ExtraAudio, msgs |-> 0, faults |-> 0, backport |-> FALSE]
\* The remote answers.
Reply ==
    [pebble |-> FALSE, presses |-> 2, frames |-> 0, audio |-> 0,
     msgs |-> MaxMsgs, faults |-> 0, backport |-> FALSE]
\* Both threads signal toggles.
Toggles ==
    [pebble |-> TRUE, presses |-> MaxPresses, frames |-> 0, audio |-> 0,
     msgs |-> 0, faults |-> 0, backport |-> FALSE]
\* Both threads signal toggles and the remote answers.
Overlap ==
    [pebble |-> TRUE, presses |-> MaxPresses - 1, frames |-> 0, audio |-> 0,
     msgs |-> MaxMsgs - 1, faults |-> 0, backport |-> FALSE]
\* live.py is not the program that runs.
Idle ==
    [pebble |-> FALSE, presses |-> 0, frames |-> 0, audio |-> 0,
     msgs |-> 0, faults |-> 0, backport |-> FALSE]
\* A device or the remote fails.
Fault ==
    [pebble |-> FALSE, presses |-> 2, frames |-> 0, audio |-> 2,
     msgs |-> 1, faults |-> MaxFaults, backport |-> FALSE]
\* The same on a Python older than 3.11, where lines 90-93 install the
\* backports as asyncio.TaskGroup and asyncio.ExceptionGroup.
FaultBackport == [Fault EXCEPT !.backport = TRUE, !.audio = 1]

Scenarios == {Capture, CaptureStop, Reply, Toggles, Overlap, Fault, FaultBackport}

\* PebbleLiveSession.__init__, then connect() and run() up to the input loop.
InitWith(scenarios) ==
    /\ ScriptsInit
    /\ HaltInit
    /\ is_session_running = FALSE
    /\ session_future = 0
    /\ session = 0
    /\ out_queue_ref = 0
    /\ audio_in_queue_ref = 0
    /\ audio_stream = 0
    /\ picam_started = FALSE
    /\ tpc = [t \in Threads |-> "idle"]
    /\ env \in scenarios
    /\ nsess = 0
    /\ fut = [s \in Sessions |-> "none"]
    /\ ready = <<>>
    /\ main = [s \in Sessions |-> "none"]
    /\ errors = [s \in Sessions |-> FALSE]
    /\ pc = [s \in Sessions |-> [k \in Kinds |-> "none"]]
    /\ held = [s \in Sessions |-> [k \in Kinds |-> 0]]
    /\ out_queue = [s \in Sessions |-> <<>>]
    /\ out_getters = [s \in Sessions |-> <<>>]
    /\ out_putters = [s \in Sessions |-> <<>>]
    /\ audio_in_queue = [s \in Sessions |-> <<>>]
    /\ in_getters = [s \in Sessions |-> <<>>]
    /\ mic = [s \in Sessions |-> "none"]
    /\ spk = [s \in Sessions |-> "none"]
    /\ nput = 0
    /\ forwarded = [s \in Sessions |-> <<>>]
    /\ received = <<>>
    /\ played = <<>>
    /\ stale = {}
    /\ turns = [s \in Sessions |-> 0]
    /\ ended = [s \in Sessions |-> 0]
    /\ stops = [s \in Sessions |-> 0]
    /\ last_toggle = "none"
    /\ log = [m \in Messages |-> 0]
    /\ reported = [s \in Sessions |-> <<>>]
    /\ raised = [s \in Sessions |-> "none"]
    /\ aborted = [s \in Sessions |-> FALSE]

Init == InitWith(Scenarios)

\* ------------------------------------------------------- the event loop
\* The order in which run_live_session creates its tasks (lines 350-354).
TaskOrder == <<"send_realtime", "listen_audio", "get_frames", "receive_audio", "play_audio">>

\* A callback of the loop that is no task step: op names what runs, for
\* session s.
callback(op, s) == [op |-> op, s |-> s, k |-> "none", ev |-> "none"]

\* The callback that resumes task k of session s with the outcome ev of what
\* the task awaits ("start" for the first step of a new task).
step(s, k, ev) == [op |-> "step", s |-> s, k |-> k, ev |-> ev]

\* The loop runs its ready callbacks in the order they were scheduled
\* (call_soon, call_soon_threadsafe, create_task): cb is the one to run now.
next_ready(cb) == ready # <<>> /\ Head(ready) = cb

\* Task k of session s has a step among the ready callbacks.
woken(s, k) ==
    \E i \in DOMAIN ready : ready[i].op = "step" /\ ready[i].s = s /\ ready[i].k = k

\* Task k of session s, at position at, resumes now with outcome ev.
runs(s, k, at, ev) == pc[s][k] = at /\ next_ready(step(s, k, ev))

\* asyncio.Queue keeps the tasks suspended in get, and those suspended in
\* put, in a deque; _wakeup_next takes the oldest and schedules its step.
waiter(s, k) == [s |-> s, k |-> k]
\* A queue that wakes nobody.
wakeup_none(waiters, rdy) == rdy
wakeup_next(waiters, rdy) ==
    IF waiters = <<>> THEN rdy
    ELSE Append(rdy, step(Head(waiters).s, Head(waiters).k, "wake"))
popleft(waiters) == IF waiters = <<>> THEN waiters ELSE Tail(waiters)

\* Task k of session s is suspended in a deque of waiters and not woken.
suspended(waiters, s, k) == \E q \in Sessions : waiter(s, k) \in Range(waiters[q])

\* ------------------------------------------------- awaited operations
\* The outcomes that what task k of session s awaits can have now: the
\* connect or close of the remote session, a thread's result (pya.open,
\* stream.read, stream.write, the capture), the sleep's timer, the send, or
\* the next message of the reply stream.
faulty == IF env.faults > 0 THEN {"error"} ELSE {}
outcomes(s, k) ==
    IF k = Main
    THEN CASE main[s] = "connecting" -> {"connected"} \cup faulty
           [] main[s] = "tg" /\ (\A x \in Kinds : pc[s][x] \in Terminal) -> {"closed"}
           [] OTHER -> {}
    ELSE CASE k = "get_frames" /\ pc[s][k] = "capture" ->
                (IF env.frames > 0 THEN {"frame"} ELSE {}) \cup faulty
           [] k = "get_frames" /\ pc[s][k] = "sleep" -> {"timer"}
           [] k = "listen_audio" /\ pc[s][k] = "open" -> {"opened"} \cup faulty
           [] k = "listen_audio" /\ pc[s][k] = "read" ->
                (IF env.audio > 0 THEN {"chunk"} ELSE {}) \cup faulty
           [] k = "send_realtime" /\ pc[s][k] = "send" -> {"sent"} \cup faulty
           [] k = "receive_audio" /\ pc[s][k] = "recv" ->
                (IF env.msgs > 0 THEN {"data", "text", "turn_complete"} ELSE {}) \cup faulty
           [] k = "play_audio" /\ pc[s][k] = "open" -> {"opened"}
           [] k = "play_audio" /\ pc[s][k] = "write" -> {"written"} \cup faulty
           [] OTHER -> {}

\* What is left for the environment to do after outcome ev.
spend(ev) ==
    CASE ev = "error" -> [env EXCEPT !.faults = @ - 1]
      [] ev = "frame" -> [env EXCEPT !.frames = @ - 1]
      [] ev = "chunk" -> [env EXCEPT !.audio = @ - 1]
      [] ev \in {"data", "text", "turn_complete"} -> [env EXCEPT !.msgs = @ - 1]
      [] OTHER -> env

\* What a task of session s awaits completes with outcome ev: the step that
\* resumes the task is scheduled behind the callbacks that are ready.
io_complete(s) ==
    \E k \in Kinds \cup {Main} : \E ev \in outcomes(s, k) :
        /\ ~woken(s, k)
        /\ ready' = Append(ready, step(s, k, ev))
        /\ env' = spend(ev)
        /\ UNCHANGED <<is_session_running, session_future, tpc, nsess>>
        /\ UNCHANGED <<refVars, futVars, taskVars, outVars, inVars, devVars, togVars>>
        /\ UNCHANGED scriptVars

\* ------------------------------------------------------- _toggle_session
\* Threads that are on the start branch and have not yet submitted.
Starting == {t \in Threads : tpc[t] \in {"start", "submit"}}

\* Line 395: the thread reads is_session_running and takes a branch. The
\* read and the writes that follow are separate steps: nothing in the class
\* holds a lock. A start is possible while sessions remain (model bound).
toggle_check(t) ==
    /\ tpc[t] = "idle"
    /\ t = "pebble" => env.pebble
    /\ env.presses > 0
    /\ is_session_running \/ nsess + Cardinality(Starting) < MaxSessions
    /\ env' = [env EXCEPT !.presses = @ - 1]
    /\ tpc' = [tpc EXCEPT ![t] = IF is_session_running THEN "stop" ELSE "start"]
    /\ last_toggle' = IF is_session_running THEN "stop" ELSE "start"
    /\ UNCHANGED <<is_session_running, session_future, nsess, ready, ended, stops>>
    /\ UNCHANGED <<log, outcomeVars>>
    /\ UNCHANGED <<refVars, futVars, taskVars, outVars, inVars, devVars>>
    /\ UNCHANGED scriptVars

\* Line 401: self.is_session_running = True.
toggle_start(t) ==
    /\ tpc[t] = "start"
    /\ is_session_running' = TRUE
    /\ tpc' = [tpc EXCEPT ![t] = "submit"]
    /\ UNCHANGED <<session_future, nsess, env, ready>>
    /\ UNCHANGED <<refVars, futVars, taskVars, outVars, inVars, devVars, togVars>>
    /\ UNCHANGED scriptVars

\* Lines 402-404: run_coroutine_threadsafe creates the future and schedules
\* the creation of the task on the loop; the done callback is registered.
toggle_submit(t) ==
    /\ tpc[t] = "submit"
    /\ nsess' = nsess + 1
    /\ session_future' = nsess + 1
    /\ fut' = [fut EXCEPT ![nsess + 1] = "pending"]
    /\ main' = [main EXCEPT ![nsess + 1] = "scheduled"]
    /\ tpc' = [tpc EXCEPT ![t] = "idle"]
    /\ ready' = Append(ready, callback("create", nsess + 1))
    /\ UNCHANGED <<is_session_running, env, errors, togVars>>
    /\ UNCHANGED <<refVars, taskVars, outVars, inVars, devVars>>
    /\ UNCHANGED scriptVars

\* Lines 406-411: the stop branch. With no future stored nothing happens.
toggle_stop(t) ==
    /\ tpc[t] = "stop"
    /\ tpc' = [tpc EXCEPT ![t] = "idle"]
    /\ IF session_future # 0
       THEN /\ is_session_running' = FALSE
            /\ ready' = Append(ready, callback("future_cancel", session_future))
            /\ stops' = [stops EXCEPT ![session_future] = @ + 1]
       ELSE UNCHANGED <<is_session_running, ready, stops>>
    /\ UNCHANGED <<session_future, nsess, env, ended, last_toggle>>
    /\ UNCHANGED <<log, outcomeVars>>
    /\ UNCHANGED <<refVars, futVars, taskVars, outVars, inVars, devVars>>
    /\ UNCHANGED scriptVars

\* ---------------------------------------------------------- cancellation
\* Where task k ends when the CancelledError of its TaskGroup reaches it at
\* position at. get_frames catches Exception only; a task that waits for
\* pya.open, outside its try, is cancelled; inside their loops the other four
\* catch CancelledError, break and return.
cancelled_pc(k, at) ==
    IF k = "get_frames" \/ at = "open" THEN "cancelled" ELSE "done"

\* The deques of waiters without the tasks of session s.
without(waiters, s) ==
    [q \in Sessions |-> SelectSeq(waiters[q], LAMBDA w : w.s # s)]

\* Task k of session s was woken in get or put (position at) and is cancelled
\* before its step: when usable holds of its queue, the wake-up goes to the
\* next waiter.
passes(s, k, at, waiters, usable) ==
    pc[s][k] = at /\ ~suspended(waiters, s, k) /\ usable

\* The TaskGroup of session s cancels every task it still has (all of them
\* but the tasks in except), and each handles its CancelledError. The
\* cancellations are scheduled together and run back to back. A stream whose
\* open was abandoned is opened by the thread and never referenced;
\* play_audio closes its stream after the break (line 337). rdy holds the
\* callbacks that stay ready.
task_group_abort(s, except, rdy) ==
    LET q_sr == held[s]["send_realtime"]
        q_la == held[s]["listen_audio"]
        q_gf == held[s]["get_frames"]
        q_pa == held[s]["play_audio"]
        og == without(out_getters, s)
        op == without(out_putters, s)
        ig == without(in_getters, s)
        p_sr == passes(s, "send_realtime", "get", out_getters, out_queue[q_sr] # <<>>)
        p_la == passes(s, "listen_audio", "put", out_putters, Len(out_queue[q_la]) < OutQueueMaxsize)
        p_gf == passes(s, "get_frames", "put", out_putters, Len(out_queue[q_gf]) < OutQueueMaxsize)
        p_pa == passes(s, "play_audio", "get", in_getters, audio_in_queue[q_pa] # <<>>)
        rdy1 == IF p_sr THEN wakeup_next(og[q_sr], rdy) ELSE rdy
        rdy2 == IF p_la THEN wakeup_next(op[q_la], rdy1) ELSE rdy1
        op2 == IF p_la THEN [op EXCEPT ![q_la] = popleft(@)] ELSE op
        rdy3 == IF p_gf THEN wakeup_next(op2[q_gf], rdy2) ELSE rdy2
    IN
    /\ pc' = [pc EXCEPT ![s] = [k \in Kinds |->
                IF k \in DOMAIN except THEN except[k]
                ELSE IF pc[s][k] \in Terminal THEN pc[s][k]
                ELSE cancelled_pc(k, pc[s][k])]]
    /\ mic' = IF "listen_audio" \in DOMAIN except THEN [mic EXCEPT ![s] = "none"]
              ELSE IF pc[s]["listen_audio"] = "open" THEN [mic EXCEPT ![s] = "leaked"]
              ELSE mic
    /\ spk' = IF "play_audio" \in DOMAIN except THEN spk
              ELSE IF pc[s]["play_audio"] = "open" THEN [spk EXCEPT ![s] = "leaked"]
              ELSE IF pc[s]["play_audio"] \in {"get", "write"} THEN [spk EXCEPT ![s] = "closed"]
              ELSE spk
    /\ out_getters' = IF p_sr THEN [og EXCEPT ![q_sr] = popleft(@)] ELSE og
    /\ out_putters' = IF p_gf THEN [op2 EXCEPT ![q_gf] = popleft(@)] ELSE op2
    /\ in_getters' = IF p_pa THEN [ig EXCEPT ![q_pa] = popleft(@)] ELSE ig
    /\ ready' = IF p_pa THEN wakeup_next(ig[q_pa], rdy3) ELSE rdy3

\* ------------------------------------------------ _session_done_callback
\* Lines 373-386, as run by the future of session s when it completes or is
\* cancelled (fut' is its state by then): future.result() raises the
\* CancelledError of a cancelled future, or the exception the coroutine
\* ended with, which is printed; whatever the outcome, the flag and the
\* stored future are reset.
\* A done callback that leaves the stored future in place.
session_done_callback_keeps_future(s) ==
    /\ is_session_running' = FALSE
    /\ session_future' = session_future
    /\ ended' = [ended EXCEPT ![s] = @ + 1]
    /\ log' = notifies(IF fut'[s] = "cancelled"
                       THEN [log EXCEPT !["Session cancelled by user"] = @ + 1]
                       ELSE log,
                       "Session Ended")
    /\ reported' = IF fut'[s] = "finished" /\ raised[s] # "none"
                   THEN [reported EXCEPT ![s] = Append(@, [line |-> 380, exc |-> raised[s]])]
                   ELSE reported

session_done_callback(s) ==
    /\ is_session_running' = FALSE
    /\ session_future' = 0
    /\ ended' = [ended EXCEPT ![s] = @ + 1]
    /\ log' = notifies(IF fut'[s] = "cancelled"
                       THEN [log EXCEPT !["Session cancelled by user"] = @ + 1]
                       ELSE log,
                       "Session Ended")
    /\ reported' = IF fut'[s] = "finished" /\ raised[s] # "none"
                   THEN [reported EXCEPT ![s] = Append(@, [line |-> 380, exc |-> raised[s]])]
                   ELSE reported

\* A future whose cancellation never reaches the task.
never_chained(s) == FALSE

\* Future chaining (run_coroutine_threadsafe): the callback that passes the
\* cancellation of the future on to the task exists once the task does.
chained(s) == main[s] # "scheduled"

\* Future.cancel() has an effect on a future that is still pending.
cancellable(s) == fut[s] = "pending"

\* The loop runs a scheduled future.cancel(). A pending future becomes
\* cancelled and runs its callbacks at once: _session_done_callback, and the
\* chaining callback, which schedules the cancellation of the task. On a
\* future that is already done it does nothing.
future_cancel(s) ==
    /\ next_ready(callback("future_cancel", s))
    /\ IF cancellable(s)
       THEN /\ fut' = [fut EXCEPT ![s] = "cancelled"]
            /\ session_done_callback(s)
            /\ ready' = IF chained(s)
                        THEN Append(Tail(ready), callback("task_cancel", s))
                        ELSE Tail(ready)
       ELSE /\ ready' = Tail(ready)
            /\ UNCHANGED <<fut, is_session_running, session_future, ended, log, reported>>
    /\ UNCHANGED <<tpc, nsess, env, main, errors, stops, last_toggle, raised, aborted>>
    /\ UNCHANGED <<refVars, taskVars, outVars, inVars, devVars>>
    /\ UNCHANGED scriptVars

\* ------------------------------------------------------ run_live_session
\* Lines 360-364: what becomes of an exception exc that leaves the async with
\* ("none": none did). Matching it at line 360 evaluates
\* asyncio.ExceptionGroup, a name the asyncio module has only where lines
\* 90-93 installed it: elsewhere an AttributeError takes the exception's
\* place. Where the name exists, a CancelledError or an ExceptionGroup is
\* caught at line 360 and any other exception at line 362.
escapes(exc) == IF exc = "none" \/ env.backport THEN "none" ELSE "AttributeError"

\* Lines 362-364: the exception caught there is printed.
except_block(s, exc) ==
    reported' = IF env.backport /\ exc \notin {"none", "CancelledError", "ExceptionGroup"}
                THEN [reported EXCEPT ![s] = Append(@, [line |-> 363, exc |-> exc])]
                ELSE reported

\* Lines 365-371, the finally block of session s, entered with exception exc
\* pending ("none": with none): the stream stored in self._audio_stream is
\* closed when it is active, and the flag is cleared. On a stream that an
\* earlier session closed, is_active() of the installed PyAudio either
\* answers false or raises; when it raises, line 371 is not reached and the
\* coroutine ends with the IOError.
finally_block(s, exc) ==
    \/ /\ mic' = IF audio_stream # 0 /\ mic[audio_stream] = "open"
                 THEN [mic EXCEPT ![audio_stream] = "closed"]
                 ELSE mic
       /\ is_session_running' = FALSE
       /\ raised' = [raised EXCEPT ![s] = exc]
    \/ /\ audio_stream # 0
       /\ mic[audio_stream] = "closed"
       /\ UNCHANGED <<mic, is_session_running>>
       /\ raised' = [raised EXCEPT ![s] = "IOError"]

\* The coroutine of session s has returned: the task is done and its done
\* callback, which sets the state of the future, is scheduled.
returns(s, rdy) ==
    /\ main' = [main EXCEPT ![s] = "returned"]
    /\ ready' = Append(rdy, callback("done", s))

\* The loop creates the task of a submitted coroutine, which runs up to the
\* await inside client.aio.live.connect. A future cancelled before this point
\* has the chaining callback schedule the task's cancellation right away.
run_live_session_create(s) ==
    /\ next_ready(callback("create", s))
    /\ main' = [main EXCEPT ![s] = "connecting"]
    /\ ready' = IF fut[s] = "cancelled"
                THEN Append(Tail(ready), callback("task_cancel", s))
                ELSE Tail(ready)
    /\ UNCHANGED <<fut, errors>>
    /\ UNCHANGED <<ctlVars, refVars, taskVars, outVars, inVars, devVars, togVars>>
    /\ UNCHANGED scriptVars

\* Lines 346-358: the connection is up; the body of the async with stores the
\* session and two new queues, creates the five tasks and reaches the end of
\* the block, where the TaskGroup waits for its tasks.
run_live_session_connected(s) ==
    /\ main[s] = "connecting"
    /\ next_ready(step(s, Main, "connected"))
    /\ main' = [main EXCEPT ![s] = "tg"]
    /\ session' = s
    /\ audio_in_queue_ref' = s
    /\ out_queue_ref' = s
    /\ pc' = [pc EXCEPT ![s] = [k \in Kinds |-> "new"]]
    /\ ready' = Tail(ready) \o [i \in DOMAIN TaskOrder |-> step(s, TaskOrder[i], "start")]
    /\ UNCHANGED <<audio_stream, held>>
    /\ UNCHANGED <<fut, errors>>
    /\ log' = notifies(log, "Session Active")
    /\ UNCHANGED <<ctlVars, outVars, inVars, devVars, histVars, outcomeVars>>
    /\ UNCHANGED scriptVars

\* Lines 360-371: connect raises. The exception meets the handlers of lines
\* 360-364, the finally block runs and the coroutine ends.
run_live_session_connect_error(s) ==
    /\ main[s] = "connecting"
    /\ next_ready(step(s, Main, "error"))
    /\ returns(s, Tail(ready))
    /\ except_block(s, "ConnectError")
    /\ finally_block(s, escapes("ConnectError"))
    /\ UNCHANGED <<session_future, tpc, nsess, env, picam_started, spk>>
    /\ UNCHANGED <<fut, errors>>
    /\ UNCHANGED <<refVars, taskVars, outVars, inVars, histVars, log, aborted>>
    /\ UNCHANGED scriptVars

\* The loop runs the scheduled cancel of the task. While connecting, the
\* CancelledError ends the connect and lines 360-371 run. Inside the
\* TaskGroup, the group cancels every task it still has. A finished task
\* ignores it.
run_live_session_cancel(s) ==
    /\ next_ready(callback("task_cancel", s))
    /\ CASE main[s] = "connecting" ->
              /\ returns(s, Tail(ready))
              /\ finally_block(s, escapes("CancelledError"))
              /\ UNCHANGED <<pc, spk, out_getters, out_putters, in_getters, aborted>>
         [] main[s] = "tg" ->
              /\ task_group_abort(s, <<>>, Tail(ready))
              /\ aborted' = [aborted EXCEPT ![s] = TRUE]
              /\ UNCHANGED <<main, is_session_running, raised>>
         [] OTHER ->
              /\ ready' = Tail(ready)
              /\ UNCHANGED <<main, mic, is_session_running, pc, spk>>
              /\ UNCHANGED <<out_getters, out_putters, in_getters, raised, aborted>>
    /\ UNCHANGED <<session_future, tpc, nsess, env, picam_started, held>>
    /\ UNCHANGED <<fut, errors>>
    /\ UNCHANGED <<out_queue, nput, forwarded>>
    /\ UNCHANGED <<audio_in_queue, received, played, stale, turns>>
    /\ UNCHANGED <<refVars, histVars, log, reported>>
    /\ UNCHANGED scriptVars

\* What TaskGroup.__aexit__ of session s raises when its tasks have finished:
\* the exceptions of its tasks as a group, else the CancelledError that
\* aborted it, else nothing.
group_exception(s) ==
    IF errors[s] THEN "ExceptionGroup"
    ELSE IF aborted[s] THEN "CancelledError"
    ELSE "none"

\* Every task of the group has finished: the async with is left (the remote
\* session is closed). A CancelledError or an ExceptionGroup, if any, meets
\* the handlers of lines 360-364; in every case the finally block runs and
\* the coroutine ends.
run_live_session_exit(s) ==
    /\ main[s] = "tg"
    /\ next_ready(step(s, Main, "closed"))
    /\ returns(s, Tail(ready))
    /\ finally_block(s, escapes(group_exception(s)))
    /\ UNCHANGED <<session_future, tpc, nsess, env, picam_started, spk>>
    /\ UNCHANGED <<fut, errors>>
    /\ UNCHANGED <<refVars, taskVars, outVars, inVars, histVars, log, reported, aborted>>
    /\ UNCHANGED scriptVars

\* The finished task sets the state of its future (future chaining). A
\* pending future becomes finished and runs _session_done_callback; a future
\* that was cancelled already ran it.
run_live_session_done(s) ==
    /\ next_ready(callback("done", s))
    /\ ready' = Tail(ready)
    /\ main' = [main EXCEPT ![s] = "done"]
    /\ IF fut[s] = "pending"
       THEN /\ fut' = [fut EXCEPT ![s] = "finished"]
            /\ session_done_callback(s)
       ELSE UNCHANGED <<fut, is_session_running, session_future, ended, log, reported>>
    /\ UNCHANGED <<tpc, nsess, env, errors, stops, last_toggle, raised, aborted>>
    /\ UNCHANGED <<refVars, taskVars, outVars, inVars, devVars>>
    /\ UNCHANGED scriptVars

\* A step that was scheduled for a task that has finished in the meantime
\* (its cancellation came first) finds nothing to resume.
cancelled_step(s) ==
    /\ ready # <<>>
    /\ Head(ready).op = "step"
    /\ Head(ready).s = s
    /\ IF Head(ready).k = Main
       THEN main[s] \notin {"connecting", "tg"}
       ELSE pc[s][Head(ready).k] \in Terminal
    /\ ready' = Tail(ready)
    /\ UNCHANGED <<ctlVars, refVars, futVars, taskVars, outVars, inVars, devVars, togVars>>
    /\ UNCHANGED scriptVars

\* ------------------------------------------------------------ the queues
\* A put that makes room by dropping the oldest item.
out_put_evicting(q, k, rdy) ==
    /\ out_queue' = [out_queue EXCEPT ![q] =
                        Append(IF @ = <<>> THEN @ ELSE Tail(@), [q |-> q, n |-> nput + 1, kind |-> k])]
    /\ nput' = nput + 1
    /\ ready' = wakeup_next(out_getters[q], rdy)
    /\ out_getters' = [out_getters EXCEPT ![q] = popleft(@)]

\* asyncio.Queue.put_nowait on the outbound queue q by task k: the item goes
\* to the tail and the oldest getter is woken. The number is the item's place
\* in the order of enqueueing.
out_put(q, k, rdy) ==
    /\ out_queue' = [out_queue EXCEPT ![q] = Append(@, [q |-> q, n |-> nput + 1, kind |-> k])]
    /\ nput' = nput + 1
    /\ ready' = wakeup_next(out_getters[q], rdy)
    /\ out_getters' = [out_getters EXCEPT ![q] = popleft(@)]

\* A queue that counts as full one item late.
out_full_late(q) == Len(out_queue[q]) > OutQueueMaxsize

\* asyncio.Queue.full() for the outbound queue.
out_full(q) == Len(out_queue[q]) >= OutQueueMaxsize

\* await self._out_queue.put(item) by task k of session s, continued by the
\* task's next position when the put returns at once; on a full queue the
\* task is suspended inside put, on the queue it called.
out_put_or_block(s, k, next, rdy) ==
    IF out_full(out_queue_ref)
    THEN /\ pc' = [pc EXCEPT ![s][k] = "put"]
         /\ held' = [held EXCEPT ![s][k] = out_queue_ref]
         /\ out_putters' = [out_putters EXCEPT ![out_queue_ref] = Append(@, waiter(s, k))]
         /\ ready' = rdy
         /\ UNCHANGED <<out_queue, nput, out_getters>>
    ELSE /\ out_put(out_queue_ref, k, rdy)
         /\ pc' = [pc EXCEPT ![s][k] = next]
         /\ UNCHANGED <<held, out_putters>>

\* The put of task k of session s, woken: it enqueues when its queue has
\* room, and is suspended again when another put came first.
out_put_resumed(s, k, next) ==
    IF out_full(held[s][k])
    THEN /\ out_putters' = [out_putters EXCEPT ![held[s][k]] = Append(@, waiter(s, k))]
         /\ ready' = Tail(ready)
         /\ UNCHANGED <<pc, out_queue, nput, out_getters>>
    ELSE /\ out_put(held[s][k], k, Tail(ready))
         /\ pc' = [pc EXCEPT ![s][k] = next]
         /\ UNCHANGED out_putters

\* A turn's end without the drain.
drain_skipped(q) == q

\* A drain that stops after one get_nowait.
drain_once(q) == IF q = <<>> THEN q ELSE Tail(q)

\* The loop of lines 319-320: get_nowait until the queue is empty.
RECURSIVE drain(_)
drain(q) == IF q = <<>> THEN q ELSE drain(Tail(q))

\* ------------------------------------------------------------ get_frames
\* Lines 275-276, after the loop.
picam_stop == picam_started' = FALSE

\* Lines 265-267: the first step starts the camera and reaches the loop.
get_frames_start(s) ==
    /\ runs(s, "get_frames", "new", "start")
    /\ ready' = Tail(ready)
    /\ IF is_session_running
       THEN /\ picam_started' = TRUE
            /\ pc' = [pc EXCEPT ![s]["get_frames"] = "capture"]
       ELSE /\ picam_stop
            /\ pc' = [pc EXCEPT ![s]["get_frames"] = "done"]
    /\ UNCHANGED <<held, mic, spk>>
    /\ UNCHANGED <<ctlVars, refVars, futVars, outVars, inVars, togVars>>
    /\ UNCHANGED scriptVars

\* Lines 269-271: the capture thread returns a frame; it is put on the queue
\* and the task sleeps, or the task is suspended in put.
get_frames_captured(s) ==
    /\ runs(s, "get_frames", "capture", "frame")
    /\ out_put_or_block(s, "get_frames", "sleep", Tail(ready))
    /\ UNCHANGED forwarded
    /\ UNCHANGED <<ctlVars, refVars, futVars, inVars, devVars, togVars>>
    /\ UNCHANGED scriptVars

\* Line 270 resumed: the put was woken.
get_frames_put(s) ==
    /\ runs(s, "get_frames", "put", "wake")
    /\ out_put_resumed(s, "get_frames", "sleep")
    /\ UNCHANGED <<held, forwarded>>
    /\ UNCHANGED <<ctlVars, refVars, futVars, inVars, devVars, togVars>>
    /\ UNCHANGED scriptVars

\* Line 271 resumed, then line 267: the flag decides between another frame
\* and leaving the loop, which stops the camera.
get_frames_sleep(s) ==
    /\ runs(s, "get_frames", "sleep", "timer")
    /\ ready' = Tail(ready)
    /\ IF is_session_running
       THEN /\ pc' = [pc EXCEPT ![s]["get_frames"] = "capture"]
            /\ UNCHANGED picam_started
       ELSE /\ picam_stop
            /\ pc' = [pc EXCEPT ![s]["get_frames"] = "done"]
    /\ UNCHANGED <<held, mic, spk>>
    /\ UNCHANGED <<ctlVars, refVars, futVars, outVars, inVars, togVars>>
    /\ UNCHANGED scriptVars

\* A capture failure that cancels the other tasks of the session.
get_frames_error_aborts(s) ==
    /\ runs(s, "get_frames", "capture", "error")
    /\ prints("Error getting frame")
    /\ picam_stop
    /\ task_group_abort(s, [x \in {"get_frames"} |-> "done"], Tail(ready))
    /\ UNCHANGED <<held, out_queue, nput, forwarded>>
    /\ UNCHANGED <<audio_in_queue, received, played, stale, turns>>
    /\ UNCHANGED <<ctlVars, refVars, futVars, histVars, outcomeVars>>
    /\ UNCHANGED scriptVars

\* Lines 272-276: the capture raises; the error is printed, the loop is left
\* and the camera is stopped. The task returns normally.
get_frames_error(s) ==
    /\ runs(s, "get_frames", "capture", "error")
    /\ ready' = Tail(ready)
    /\ prints("Error getting frame")
    /\ picam_stop
    /\ pc' = [pc EXCEPT ![s]["get_frames"] = "done"]
    /\ UNCHANGED <<held, mic, spk>>
    /\ UNCHANGED <<ctlVars, refVars, futVars, outVars, inVars, histVars, outcomeVars>>
    /\ UNCHANGED scriptVars

\* ---------------------------------------------------------- listen_audio
\* Lines 280-286: the first step asks a thread to open the input stream.
listen_audio_start(s) ==
    /\ runs(s, "listen_audio", "new", "start")
    /\ ready' = Tail(ready)
    /\ pc' = [pc EXCEPT ![s]["listen_audio"] = "open"]
    /\ mic' = [mic EXCEPT ![s] = "opening"]
    /\ UNCHANGED <<held, picam_started, spk>>
    /\ UNCHANGED <<ctlVars, refVars, futVars, outVars, inVars, togVars>>
    /\ UNCHANGED scriptVars

\* Line 288, the loop condition of listen_audio.
listen_audio_loop == IF is_session_running THEN "read" ELSE "done"

\* Lines 281-288: the stream is open and stored in self._audio_stream.
listen_audio_opened(s) ==
    /\ runs(s, "listen_audio", "open", "opened")
    /\ ready' = Tail(ready)
    /\ audio_stream' = s
    /\ mic' = [mic EXCEPT ![s] = "open"]
    /\ pc' = [pc EXCEPT ![s]["listen_audio"] = listen_audio_loop]
    /\ UNCHANGED <<session, out_queue_ref, audio_in_queue_ref>>
    /\ UNCHANGED <<held, picam_started, spk>>
    /\ UNCHANGED <<ctlVars, futVars, outVars, inVars, togVars>>
    /\ UNCHANGED scriptVars

\* Lines 290-291: a chunk was read; it is put on the queue, or the task is
\* suspended in put.
listen_audio_read(s) ==
    /\ runs(s, "listen_audio", "read", "chunk")
    /\ out_put_or_block(s, "listen_audio", listen_audio_loop, Tail(ready))
    /\ UNCHANGED forwarded
    /\ UNCHANGED <<ctlVars, refVars, futVars, inVars, devVars, togVars>>
    /\ UNCHANGED scriptVars

\* Line 291 resumed, then line 288.
listen_audio_put(s) ==
    /\ runs(s, "listen_audio", "put", "wake")
    /\ out_put_resumed(s, "listen_audio", listen_audio_loop)
    /\ UNCHANGED <<held, forwarded>>
    /\ UNCHANGED <<ctlVars, refVars, futVars, inVars, devVars, togVars>>
    /\ UNCHANGED scriptVars

\* Task k of session s ends with an exception: its TaskGroup cancels the
\* other tasks and will raise an ExceptionGroup.
child_raises(s, k) ==
    /\ task_group_abort(s, [x \in {k} |-> "failed"], Tail(ready))
    /\ errors' = [errors EXCEPT ![s] = TRUE]

\* Lines 281-286 raise (no usable input device): nothing catches it.
listen_audio_open_error(s) ==
    /\ runs(s, "listen_audio", "open", "error")
    /\ child_raises(s, "listen_audio")
    /\ UNCHANGED <<fut, main, held, picam_started>>
    /\ UNCHANGED <<out_queue, nput, forwarded>>
    /\ UNCHANGED <<audio_in_queue, received, played, stale, turns>>
    /\ UNCHANGED <<ctlVars, refVars, togVars>>
    /\ UNCHANGED scriptVars

\* Lines 292-294: the read raises IOError; the loop is left.
listen_audio_read_error(s) ==
    /\ runs(s, "listen_audio", "read", "error")
    /\ ready' = Tail(ready)
    /\ pc' = [pc EXCEPT ![s]["listen_audio"] = "done"]
    /\ UNCHANGED held
    /\ UNCHANGED <<ctlVars, refVars, futVars, outVars, inVars, devVars, togVars>>
    /\ UNCHANGED scriptVars

\* --------------------------------------------------------- send_realtime
\* A get that takes the newest item of the queue.
send_get_newest(s, q, rdy) ==
    /\ out_queue' = [out_queue EXCEPT ![q] = SubSeq(@, 1, Len(@) - 1)]
    /\ forwarded' = [forwarded EXCEPT ![session] = Append(@, out_queue[q][Len(out_queue[q])])]
    /\ pc' = [pc EXCEPT ![s]["send_realtime"] = "send"]
    /\ held' = [held EXCEPT ![s]["send_realtime"] = session]
    /\ ready' = wakeup_next(out_putters[q], rdy)
    /\ out_putters' = [out_putters EXCEPT ![q] = popleft(@)]
    /\ UNCHANGED out_getters

\* Lines 300-301 with an item at hand: the head of queue q is removed, the
\* oldest putter is woken, and the item is handed to send_realtime_input of
\* the session stored in self._session.
send_get(s, q, rdy) ==
    /\ out_queue' = [out_queue EXCEPT ![q] = Tail(@)]
    /\ forwarded' = [forwarded EXCEPT ![session] = Append(@, Head(out_queue[q]))]
    /\ pc' = [pc EXCEPT ![s]["send_realtime"] = "send"]
    /\ held' = [held EXCEPT ![s]["send_realtime"] = session]
    /\ ready' = wakeup_next(out_putters[q], rdy)
    /\ out_putters' = [out_putters EXCEPT ![q] = popleft(@)]
    /\ UNCHANGED out_getters

\* Task k of session s is suspended in get on queue q.
suspend_get(s, k, q, getters) ==
    /\ pc' = [pc EXCEPT ![s][k] = "get"]
    /\ held' = [held EXCEPT ![s][k] = q]
    /\ getters' = [getters EXCEPT ![q] = Append(@, waiter(s, k))]

\* Lines 298-301 from the loop condition to the next suspension.
send_realtime_loop(s, rdy) ==
    IF ~is_session_running
    THEN /\ pc' = [pc EXCEPT ![s]["send_realtime"] = "done"]
         /\ ready' = rdy
         /\ UNCHANGED <<held, out_queue, forwarded, out_getters, out_putters>>
    ELSE IF out_queue[out_queue_ref] # <<>>
         THEN send_get(s, out_queue_ref, rdy)
         ELSE /\ suspend_get(s, "send_realtime", out_queue_ref, out_getters)
              /\ ready' = rdy
              /\ UNCHANGED <<out_queue, forwarded, out_putters>>

\* The first step of the task.
send_realtime_start(s) ==
    /\ runs(s, "send_realtime", "new", "start")
    /\ send_realtime_loop(s, Tail(ready))
    /\ UNCHANGED nput
    /\ UNCHANGED <<ctlVars, refVars, futVars, inVars, devVars, togVars>>
    /\ UNCHANGED scriptVars

\* Line 300 resumed: the get was woken. It takes the head of the queue it
\* waits on, or is suspended again when another get came first.
send_realtime_get(s) ==
    /\ runs(s, "send_realtime", "get", "wake")
    /\ IF out_queue[held[s]["send_realtime"]] = <<>>
       THEN /\ suspend_get(s, "send_realtime", held[s]["send_realtime"], out_getters)
            /\ ready' = Tail(ready)
            /\ UNCHANGED <<out_queue, forwarded, out_putters>>
       ELSE send_get(s, held[s]["send_realtime"], Tail(ready))
    /\ UNCHANGED nput
    /\ UNCHANGED <<ctlVars, refVars, futVars, inVars, devVars, togVars>>
    /\ UNCHANGED scriptVars

\* Line 301 resumed: the send returned.
send_realtime_sent(s) ==
    /\ runs(s, "send_realtime", "send", "sent")
    /\ send_realtime_loop(s, Tail(ready))
    /\ UNCHANGED nput
    /\ UNCHANGED <<ctlVars, refVars, futVars, inVars, devVars, togVars>>
    /\ UNCHANGED scriptVars

\* A send failure that ends the task.
send_realtime_error_ends(s) ==
    /\ runs(s, "send_realtime", "send", "error")
    /\ prints("Error sending data")
    /\ ready' = Tail(ready)
    /\ pc' = [pc EXCEPT ![s]["send_realtime"] = "done"]
    /\ UNCHANGED <<held, outVars>>
    /\ UNCHANGED <<ctlVars, refVars, futVars, inVars, devVars, histVars, outcomeVars>>
    /\ UNCHANGED scriptVars

\* Lines 304-305: the send raised; the error is printed and the loop goes on.
send_realtime_error(s) ==
    /\ runs(s, "send_realtime", "send", "error")
    /\ prints("Error sending data")
    /\ send_realtime_loop(s, Tail(ready))
    /\ UNCHANGED nput
    /\ UNCHANGED <<ctlVars, refVars, futVars, inVars, devVars, histVars, outcomeVars>>
    /\ UNCHANGED scriptVars

\* --------------------------------------------------------- receive_audio
\* Lines 309-312 from the loop condition to the await of the next reply of
\* the session stored in self._session.
receive_audio_loop(s) ==
    IF is_session_running
    THEN /\ pc' = [pc EXCEPT ![s]["receive_audio"] = "recv"]
         /\ held' = [held EXCEPT ![s]["receive_audio"] = session]
    ELSE /\ pc' = [pc EXCEPT ![s]["receive_audio"] = "done"]
         /\ UNCHANGED held

\* The first step of the task.
receive_audio_start(s) ==
    /\ runs(s, "receive_audio", "new", "start")
    /\ ready' = Tail(ready)
    /\ receive_audio_loop(s)
    /\ UNCHANGED <<ctlVars, refVars, futVars, outVars, inVars, devVars, togVars>>
    /\ UNCHANGED scriptVars

\* The audio chunk that arrives next, for the receive_audio of session s.
chunk(s) == [id |-> Len(received) + 1, s |-> s, turn |-> turns[s] + 1]

\* The chunks of the current turn of session s that are in a queue: received,
\* and not handed to stream.write.
unplayed(s) ==
    {c \in UNION {Range(audio_in_queue[q]) : q \in Sessions} :
        c.s = s /\ c.turn = turns[s] + 1}

\* Lines 316-317: a reply part with audio goes on the inbound queue stored in
\* self._audio_in_queue (put_nowait wakes the oldest getter). The chunk is
\* numbered in order of arrival and tagged with the receiving task's session
\* and turn.
receive_audio_data(s) ==
    /\ runs(s, "receive_audio", "recv", "data")
    /\ received' = Append(received, chunk(s))
    /\ audio_in_queue' = [audio_in_queue EXCEPT ![audio_in_queue_ref] = Append(@, chunk(s))]
    /\ ready' = wakeup_next(in_getters[audio_in_queue_ref], Tail(ready))
    /\ in_getters' = [in_getters EXCEPT ![audio_in_queue_ref] = popleft(@)]
    /\ UNCHANGED <<played, stale, turns>>
    /\ UNCHANGED <<ctlVars, refVars, futVars, taskVars, outVars, devVars, togVars>>
    /\ UNCHANGED scriptVars

\* A text part that is printed and also put on the inbound queue.
receive_audio_text_enqueues(s) ==
    /\ runs(s, "receive_audio", "recv", "text")
    /\ prints("text")
    /\ audio_in_queue' = [audio_in_queue EXCEPT ![audio_in_queue_ref] = Append(@, chunk(s))]
    /\ ready' = wakeup_next(in_getters[audio_in_queue_ref], Tail(ready))
    /\ in_getters' = [in_getters EXCEPT ![audio_in_queue_ref] = popleft(@)]
    /\ UNCHANGED <<received, played, stale, turns>>
    /\ UNCHANGED <<ctlVars, refVars, futVars, taskVars, outVars, devVars>>
    /\ UNCHANGED <<histVars, outcomeVars>>
    /\ UNCHANGED scriptVars

\* Lines 314-315: a reply part with text is printed.
receive_audio_text(s) ==
    /\ runs(s, "receive_audio", "recv", "text")
    /\ ready' = Tail(ready)
    /\ prints("text")
    /\ UNCHANGED <<ctlVars, refVars, futVars, taskVars, outVars, inVars, devVars>>
    /\ UNCHANGED <<histVars, outcomeVars>>
    /\ UNCHANGED scriptVars

\* Lines 319-320, then 309-312: the turn's stream ends; the inbound queue is
\* emptied without a suspension and the loop goes on to the next turn.
receive_audio_turn_complete(s) ==
    /\ runs(s, "receive_audio", "recv", "turn_complete")
    /\ ready' = Tail(ready)
    /\ turns' = [turns EXCEPT ![s] = @ + 1]
    /\ stale' = stale \cup unplayed(s)
    /\ audio_in_queue' = [audio_in_queue EXCEPT ![audio_in_queue_ref] = drain(@)]
    /\ receive_audio_loop(s)
    /\ UNCHANGED <<in_getters, received, played>>
    /\ UNCHANGED <<ctlVars, refVars, futVars, outVars, devVars, togVars>>
    /\ UNCHANGED scriptVars

\* A failure of the reply stream that ends the task.
receive_audio_error_ends(s) ==
    /\ runs(s, "receive_audio", "recv", "error")
    /\ ready' = Tail(ready)
    /\ prints("Error receiving audio")
    /\ pc' = [pc EXCEPT ![s]["receive_audio"] = "done"]
    /\ UNCHANGED held
    /\ UNCHANGED <<ctlVars, refVars, futVars, outVars, inVars, devVars, histVars, outcomeVars>>
    /\ UNCHANGED scriptVars

\* Lines 323-324: the reply stream raised; the error is printed and the loop
\* goes on to the next turn. The queue is left as it is.
receive_audio_error(s) ==
    /\ runs(s, "receive_audio", "recv", "error")
    /\ ready' = Tail(ready)
    /\ prints("Error receiving audio")
    /\ receive_audio_loop(s)
    /\ UNCHANGED <<ctlVars, refVars, futVars, outVars, inVars, devVars, histVars, outcomeVars>>
    /\ UNCHANGED scriptVars

\* ------------------------------------------------------------ play_audio
\* A get that leaves the chunk in the queue.
play_get_peek(s, q) ==
    /\ played' = Append(played, Head(audio_in_queue[q]))
    /\ pc' = [pc EXCEPT ![s]["play_audio"] = "write"]
    /\ UNCHANGED <<held, in_getters, audio_in_queue>>

\* Lines 333-334 with a chunk at hand: the head of queue q is removed and
\* handed to stream.write in a thread.
\* A get that returns the newest chunk of the queue instead of the oldest.
play_get_newest(s, q) ==
    /\ audio_in_queue' = [audio_in_queue EXCEPT ![q] = SubSeq(@, 1, Len(@) - 1)]
    /\ played' = Append(played, audio_in_queue[q][Len(audio_in_queue[q])])
    /\ pc' = [pc EXCEPT ![s]["play_audio"] = "write"]
    /\ UNCHANGED <<held, in_getters>>

play_get(s, q) ==
    /\ audio_in_queue' = [audio_in_queue EXCEPT ![q] = Tail(@)]
    /\ played' = Append(played, Head(audio_in_queue[q]))
    /\ pc' = [pc EXCEPT ![s]["play_audio"] = "write"]
    /\ UNCHANGED <<held, in_getters>>

\* Lines 331-337 from the loop condition to the next suspension, or to the
\* close of the stream.
play_audio_loop(s) ==
    IF ~is_session_running
    THEN /\ pc' = [pc EXCEPT ![s]["play_audio"] = "done"]
         /\ spk' = [spk EXCEPT ![s] = "closed"]
         /\ UNCHANGED <<held, audio_in_queue, played, in_getters>>
    ELSE /\ IF audio_in_queue[audio_in_queue_ref] # <<>>
            THEN play_get(s, audio_in_queue_ref)
            ELSE /\ suspend_get(s, "play_audio", audio_in_queue_ref, in_getters)
                 /\ UNCHANGED <<audio_in_queue, played>>
         /\ spk' = [spk EXCEPT ![s] = "open"]

\* Lines 328-330: the first step asks a thread to open the output stream.
play_audio_start(s) ==
    /\ runs(s, "play_audio", "new", "start")
    /\ ready' = Tail(ready)
    /\ pc' = [pc EXCEPT ![s]["play_audio"] = "open"]
    /\ spk' = [spk EXCEPT ![s] = "opening"]
    /\ UNCHANGED <<held, picam_started, mic>>
    /\ UNCHANGED <<ctlVars, refVars, futVars, outVars, inVars, togVars>>
    /\ UNCHANGED scriptVars

\* Line 328 resumed: the stream is open.
play_audio_opened(s) ==
    /\ runs(s, "play_audio", "open", "opened")
    /\ ready' = Tail(ready)
    /\ play_audio_loop(s)
    /\ UNCHANGED <<picam_started, mic, received, stale, turns>>
    /\ UNCHANGED <<ctlVars, refVars, futVars, outVars, togVars>>
    /\ UNCHANGED scriptVars

\* Line 333 resumed: the get was woken. It takes the head of the queue it
\* waits on, or is suspended again when the queue was emptied first.
play_audio_get(s) ==
    /\ runs(s, "play_audio", "get", "wake")
    /\ ready' = Tail(ready)
    /\ IF audio_in_queue[held[s]["play_audio"]] = <<>>
       THEN /\ suspend_get(s, "play_audio", held[s]["play_audio"], in_getters)
            /\ UNCHANGED <<audio_in_queue, played>>
       ELSE play_get(s, held[s]["play_audio"])
    /\ UNCHANGED <<received, stale, turns>>
    /\ UNCHANGED <<ctlVars, refVars, futVars, outVars, devVars, togVars>>
    /\ UNCHANGED scriptVars

\* Line 334 resumed: the write returned.
play_audio_written(s) ==
    /\ runs(s, "play_audio", "write", "written")
    /\ ready' = Tail(ready)
    /\ play_audio_loop(s)
    /\ UNCHANGED <<picam_started, mic, received, stale, turns>>
    /\ UNCHANGED <<ctlVars, refVars, futVars, outVars, togVars>>
    /\ UNCHANGED scriptVars

\* Line 334 raised: only CancelledError is caught, so the task ends with the
\* exception and line 337 is not reached.
play_audio_write_error(s) ==
    /\ runs(s, "play_audio", "write", "error")
    /\ child_raises(s, "play_audio")
    /\ UNCHANGED <<fut, main, held, picam_started>>
    /\ UNCHANGED <<out_queue, nput, forwarded>>
    /\ UNCHANGED <<audio_in_queue, received, played, stale, turns>>
    /\ UNCHANGED <<ctlVars, refVars, togVars>>
    /\ UNCHANGED scriptVars

\* ------------------------------------------------------------------ Next
Toggle == \E t \in Threads : toggle_check(t) \/ toggle_start(t) \/ toggle_submit(t) \/ toggle_stop(t)

Loop ==
    \E s \in Sessions :
        \/ io_complete(s)
        \/ future_cancel(s)
        \/ run_live_session_create(s)
        \/ run_live_session_connected(s)
        \/ run_live_session_connect_error(s)
        \/ run_live_session_cancel(s)
        \/ run_live_session_exit(s)
        \/ run_live_session_done(s)
        \/ cancelled_step(s)
        \/ get_frames_start(s)
        \/ get_frames_captured(s)
        \/ get_frames_put(s)
        \/ get_frames_sleep(s)
        \/ get_frames_error(s)
        \/ listen_audio_start(s)
        \/ listen_audio_opened(s)
        \/ listen_audio_read(s)
        \/ listen_audio_put(s)
        \/ listen_audio_open_error(s)
        \/ listen_audio_read_error(s)
        \/ send_realtime_start(s)
        \/ send_realtime_get(s)
        \/ send_realtime_sent(s)
        \/ send_realtime_error(s)
        \/ receive_audio_start(s)
        \/ receive_audio_data(s)
        \/ receive_audio_text(s)
        \/ receive_audio_turn_complete(s)
        \/ receive_audio_error(s)
        \/ play_audio_start(s)
        \/ play_audio_opened(s)
        \/ play_audio_get(s)
        \/ play_audio_written(s)
        \/ play_audio_write_error(s)

Next == Toggle \/ Loop

Spec == Init /\ [][Next]_vars

\* The loop thread runs forever (loop.run_forever, line 421): a callback that
\* is ready is run, and an awaited operation that can complete does. The
\* runs are those of Spec but for the overlapping sessions with a reply.
FairSpec == InitWith(Scenarios \ {Overlap}) /\ [][Next]_vars /\ WF_vars(Loop)

\* ------------------------------------------------------------- shutdown
\* The other programs, which a step of shutdown leaves alone.
otherScripts == <<analyzerVars, controllerVars, triggerVars, bridgeVars>>

\* Lines 459-460: the input loop of run was left (Ctrl+C, end of input, or the
\* Pebble thread died) and main's finally block calls shutdown. With a session
\* future that is not done, its cancel is scheduled on the loop.
shutdown_cancel ==
    /\ shut = "no"
    /\ tpc["keyboard"] = "idle"
    /\ shut' = "stop"
    /\ ready' = IF session_future # 0 /\ fut[session_future] = "pending"
                THEN Append(ready, callback("future_cancel", session_future))
                ELSE ready
    /\ UNCHANGED <<ctlVars, refVars, futVars, taskVars, outVars, inVars, devVars, togVars>>
    /\ UNCHANGED <<loop_state, otherScripts>>

\* Lines 462-463: loop.stop is scheduled on the loop, when the loop runs.
shutdown_stop ==
    /\ shut = "stop"
    /\ shut' = "release"
    /\ ready' = IF loop_state # "stopped" THEN Append(ready, callback("stop", 0)) ELSE ready
    /\ UNCHANGED <<ctlVars, refVars, futVars, taskVars, outVars, inVars, devVars, togVars>>
    /\ UNCHANGED <<loop_state, otherScripts>>

\* PyAudio.terminate closes the streams that are open.
terminated(streams) ==
    [s \in Sessions |-> IF streams[s] = "open" THEN "closed" ELSE streams[s]]

\* Lines 465-475: pya.terminate() and the stop of the camera; shutdown
\* returns and the process exits, the loop thread being a daemon (line 421).
shutdown_release ==
    /\ shut = "release"
    /\ shut' = "exited"
    /\ picam_stop
    /\ mic' = terminated(mic)
    /\ spk' = terminated(spk)
    /\ UNCHANGED <<ctlVars, refVars, futVars, ready, taskVars, outVars, inVars, togVars>>
    /\ UNCHANGED <<loop_state, otherScripts>>

\* BaseEventLoop.stop, run as a callback: the loop is marked as stopping. It
\* finishes the iteration it is in, which is the first k of the callbacks that
\* are ready behind this one; what is scheduled later is behind the end of the
\* iteration.
loop_stop ==
    /\ next_ready(callback("stop", 0))
    /\ loop_state = "running"
    /\ loop_state' = "stopping"
    /\ \E k \in 0 .. Len(Tail(ready)) :
        ready' = SubSeq(Tail(ready), 1, k) \o <<callback("halt", 0)>>
                    \o SubSeq(Tail(ready), k + 1, Len(Tail(ready)))
    /\ UNCHANGED <<ctlVars, refVars, futVars, taskVars, outVars, inVars, devVars, togVars>>
    /\ UNCHANGED <<shut, otherScripts>>

\* run_forever returns at the end of the iteration in which stop ran: no
\* callback is run any more.
loop_halted ==
    /\ next_ready(callback("halt", 0))
    /\ loop_state' = "stopped"
    /\ ready' = Tail(ready)
    /\ UNCHANGED <<ctlVars, refVars, futVars, taskVars, outVars, inVars, devVars, togVars>>
    /\ UNCHANGED <<shut, otherScripts>>

\* The run of live.py with its end: the loop runs its callbacks until it has
\* stopped, Enter is read until the input loop is left, the Pebble thread
\* calls the handler until the process exits.
ShutdownNext ==
    \/ loop_state # "stopped" /\ shut # "exited" /\ Loop
    \/ \E t \in Threads :
          /\ shut # "exited"
          /\ t = "keyboard" => shut = "no"
          /\ toggle_check(t) \/ toggle_start(t) \/ toggle_submit(t) \/ toggle_stop(t)
    \/ shutdown_cancel
    \/ shutdown_stop
    \/ shutdown_release
    \/ loop_stop
    \/ loop_halted

\* The runs in which Enter starts a session and may stop it, with the
\* microphone filling the queue or the remote answering.
ShutdownSpec == InitWith({CaptureStop, Reply}) /\ [][ShutdownNext]_vars

\* ================================================= pi_camera_analyzer.py
\* The positions of a cycle (lines 66-99): the capture, the upload, the
\* request and the printing of the response.
Stages == {"capture", "upload", "generate", "respond"}

\* What the statement at each stage leads to when it returns.
after_stage(at) ==
    CASE at = "capture" -> "upload"
      [] at = "upload" -> "generate"
      [] at = "generate" -> "respond"

\* A cleanup that leaves the file where it is.
remove_skipped(exists) == exists

\* Lines 106-107: os.remove when the file exists; afterwards it does not.
remove(exists) == FALSE

\* picam2.capture_file creates the image; a capture that is cut short by an
\* exception may or may not have created it.
written(at) == IF at = "capture" THEN BOOLEAN ELSE {pca_image}

\* Line 62: Enter is pressed and the cycle begins.
pca_input ==
    /\ pca_pc = "input"
    /\ pca_enters > 0
    /\ pca_enters' = pca_enters - 1
    /\ pca_pc' = "capture"
    /\ UNCHANGED <<pca_image, pca_started, pca_pending, pca_log>>
    /\ UNCHANGED analyzerRest

\* Lines 110-115: the loop is left. The KeyboardInterrupt is caught at line
\* 110, any other exception passes; either way the finally block stops the
\* camera.
leaves(exc) ==
    /\ pca_pc' = "exited"
    /\ pca_pending' = exc
    /\ pca_started' = FALSE

\* Line 62: input() raises, KeyboardInterrupt on Ctrl+C or EOFError when the
\* standard input is closed. The call is outside the inner try.
pca_input_raises ==
    /\ pca_pc = "input"
    /\ \E exc \in {"KeyboardInterrupt", "EOFError"} : leaves(exc)
    /\ UNCHANGED <<pca_image, pca_log, pca_enters>>
    /\ UNCHANGED analyzerRest

\* Lines 69, 74 and 81: the capture, the upload or the request returns.
pca_stage ==
    /\ pca_pc \in Stages \ {"respond"}
    /\ pca_pc' = after_stage(pca_pc)
    /\ pca_image' = IF pca_pc = "capture" THEN TRUE ELSE pca_image
    /\ UNCHANGED <<pca_started, pca_pending, pca_log, pca_enters>>
    /\ UNCHANGED analyzerRest

\* Lines 91-99: the response is printed, or the message that nothing was
\* generated. The finally block is next.
pca_respond ==
    /\ pca_pc = "respond"
    /\ \E out \in {"answer", "no content"} : pca_log' = Append(pca_log, out)
    /\ pca_pc' = "cleanup"
    /\ UNCHANGED <<pca_image, pca_started, pca_pending, pca_enters>>
    /\ UNCHANGED analyzerRest

\* Lines 101-102: a statement of the cycle raises an Exception; it is caught
\* and printed. The finally block is next.
pca_error ==
    /\ pca_pc \in Stages
    /\ pca_log' = Append(pca_log, "error")
    /\ \E w \in written(pca_pc) : pca_image' = w
    /\ pca_pc' = "cleanup"
    /\ UNCHANGED <<pca_started, pca_pending, pca_enters>>
    /\ UNCHANGED analyzerRest

\* Ctrl+C during the cycle: KeyboardInterrupt is no Exception, line 101 does
\* not catch it. The finally block runs with the interrupt pending.
pca_interrupt ==
    /\ pca_pc \in Stages
    /\ pca_pending' = "KeyboardInterrupt"
    /\ \E w \in written(pca_pc) : pca_image' = w
    /\ pca_pc' = "cleanup"
    /\ UNCHANGED <<pca_started, pca_log, pca_enters>>
    /\ UNCHANGED analyzerRest

\* Lines 104-108, then line 60 or lines 110-115: the file is removed; the
\* loop goes back to input(), or the pending interrupt leaves the loop.
pca_cleanup ==
    /\ pca_pc = "cleanup"
    /\ pca_image' = remove(pca_image)
    /\ IF pca_pending = "none"
       THEN /\ pca_pc' = "input"
            /\ UNCHANGED <<pca_started, pca_pending>>
       ELSE leaves(pca_pending)
    /\ UNCHANGED <<pca_log, pca_enters>>
    /\ UNCHANGED analyzerRest

AnalyzerNext ==
    \/ pca_input
    \/ pca_input_raises
    \/ pca_stage
    \/ pca_respond
    \/ pca_error
    \/ pca_interrupt
    \/ pca_cleanup

AnalyzerSpec == InitWith({Idle}) /\ [][AnalyzerNext]_vars

\* ============================================= pebble_gemini_controller.py
\* Lines 149-156: a MIDDLE button packet arrives. The handler starts a thread
\* that sends the voice prompt notification, whatever the state of a recording.
pgc_raw_packet_handler ==
    /\ pgc_env.presses > 0
    /\ pgc_env' = [pgc_env EXCEPT !.presses = @ - 1]
    /\ pgc_prompts' = pgc_prompts + 1
    /\ UNCHANGED <<pgc_listening, pgc_buffer, pgc_file, pgc_heard, pgc_analyses, pgc_sent,
                   pgc_watch>>
    /\ UNCHANGED controllerRest

\* Lines 142-147: the thread sends the notification, or prints the error.
pgc_send_prompt_notification ==
    /\ pgc_prompts > 0
    /\ pgc_prompts' = pgc_prompts - 1
    /\ \E ok \in BOOLEAN :
        pgc_sent' = IF ok
                    THEN [pgc_sent EXCEPT !["Reply with voice to dictate your prompt."] = @ + 1]
                    ELSE pgc_sent
    /\ UNCHANGED <<pgc_listening, pgc_buffer, pgc_file, pgc_heard, pgc_analyses, pgc_watch,
                   pgc_env>>
    /\ UNCHANGED controllerRest

\* Lines 158-172: the watch initiates a voice session. The buffer is cleared,
\* "Listening..." is sent and the handlers of the session are registered.
\* A session setup that leaves the buffer as it is.
cleared_not(buffer) == buffer

\* Line 164: _audio_buffer.clear().
cleared(buffer) == <<>>

pgc_on_session_setup ==
    /\ pgc_watch = "idle"
    /\ pgc_env.sessions > 0
    /\ pgc_env' = [pgc_env EXCEPT !.sessions = @ - 1]
    /\ pgc_watch' = "session"
    /\ pgc_buffer' = cleared(pgc_buffer)
    /\ pgc_heard' = <<>>
    /\ pgc_sent' = [pgc_sent EXCEPT !["Listening..."] = @ + 1]
    /\ pgc_listening' = TRUE
    /\ UNCHANGED <<pgc_prompts, pgc_file, pgc_analyses>>
    /\ UNCHANGED controllerRest

\* The chunks of a run are numbered in the order in which the watch sends them.
chunk_sent == MaxChunks - pgc_env.chunks + 1

\* Lines 197-199: a chunk of audio arrives during the session and is appended
\* to the buffer.
pgc_handle_audio_data ==
    /\ pgc_watch = "session"
    /\ pgc_listening
    /\ pgc_env.chunks > 0
    /\ pgc_env' = [pgc_env EXCEPT !.chunks = @ - 1]
    /\ pgc_buffer' = Append(pgc_buffer, chunk_sent)
    /\ pgc_heard' = Append(pgc_heard, chunk_sent)
    /\ UNCHANGED <<pgc_prompts, pgc_listening, pgc_file, pgc_analyses, pgc_sent, pgc_watch>>
    /\ UNCHANGED controllerRest

\* Lines 174-195: the watch ends the voice session. "Processing..." is sent,
\* the handlers are unregistered, and unless the buffer is empty the audio is
\* written to dictated_audio.ogg and an analysis thread is started.
pgc_on_session_end ==
    /\ pgc_watch = "session"
    /\ pgc_listening
    /\ pgc_watch' = "idle"
    /\ pgc_sent' = [pgc_sent EXCEPT !["Processing..."] = @ + 1]
    /\ pgc_listening' = FALSE
    /\ IF pgc_buffer = <<>>
       THEN UNCHANGED <<pgc_file, pgc_analyses>>
       ELSE /\ pgc_file' = [exists |-> TRUE, content |-> pgc_buffer]
            /\ pgc_analyses' = pgc_analyses + 1
    /\ UNCHANGED <<pgc_prompts, pgc_buffer, pgc_heard, pgc_env>>
    /\ UNCHANGED controllerRest

\* Lines 201-226: the analysis thread uploads the file and asks for the
\* transcription; it sends the text, or the error, and removes the file.
pgc_analyze_audio ==
    /\ pgc_analyses > 0
    /\ pgc_analyses' = pgc_analyses - 1
    /\ \E body \in {"Transcription", "Gemini Error"} :
        pgc_sent' = [pgc_sent EXCEPT ![body] = @ + 1]
    /\ pgc_file' = [pgc_file EXCEPT !.exists = FALSE]
    /\ UNCHANGED <<pgc_prompts, pgc_listening, pgc_buffer, pgc_heard, pgc_watch, pgc_env>>
    /\ UNCHANGED controllerRest

ControllerNext ==
    \/ pgc_raw_packet_handler
    \/ pgc_send_prompt_notification
    \/ pgc_on_session_setup
    \/ pgc_handle_audio_data
    \/ pgc_on_session_end
    \/ pgc_analyze_audio

ControllerSpec == InitWith({Idle}) /\ [][ControllerNext]_vars

\* ========================================= pebble_voice.py (PebbleCameraTrigger)
\* The caller h moves from one position of the handler to the next.
pct_goes(h, from, to) ==
    /\ pct_pc[h] = from
    /\ pct_pc' = [pct_pc EXCEPT ![h] = to]

\* A notification with this body is sent.
pct_notifies(body) == pct_sent' = [pct_sent EXCEPT ![body] = @ + 1]

\* Lines 313-314: a MIDDLE press reaches the handler, which reads the flag.
pct_press(h) ==
    /\ pct_env.presses > 0
    /\ pct_env' = [pct_env EXCEPT !.presses = @ - 1]
    /\ pct_goes(h, "idle", IF pct_is_recording THEN "clear" ELSE "launch")
    /\ pct_local' = [pct_local EXCEPT ![h] = NoLocals]
    /\ UNCHANGED <<pct_is_recording, pct_audio_stream, pct_audio_frames, pct_thread,
                   pct_captures, pct_cycle, pct_analyses, pct_files, pct_sent>>
    /\ UNCHANGED triggerRest

\* Lines 319-320: the capture thread is created, stored and started.
pct_launch(h) ==
    /\ pct_goes(h, "launch", "set")
    /\ pct_captures' = Append(pct_captures, "running")
    /\ pct_thread' = Len(pct_captures) + 1
    /\ pct_cycle' = pct_cycle \cup {Len(pct_captures) + 1}
    /\ pct_local' = [pct_local EXCEPT ![h].mine = Len(pct_captures) + 1]
    /\ UNCHANGED <<pct_is_recording, pct_audio_stream, pct_audio_frames, pct_analyses,
                   pct_files, pct_sent, pct_env>>
    /\ UNCHANGED triggerRest

\* Line 323: the flag is set.
pct_set(h) ==
    /\ pct_goes(h, "set", "open")
    /\ pct_is_recording' = TRUE
    /\ UNCHANGED <<pct_audio_stream, pct_audio_frames, pct_thread, pct_captures,
                   pct_cycle, pct_analyses, pct_files, pct_sent, pct_local, pct_env>>
    /\ UNCHANGED triggerRest

\* Lines 261-276: _start_recording clears the frames, opens the input stream
\* and starts it.
pct_start_recording(h) ==
    /\ pct_goes(h, "open", "check")
    /\ pct_audio_frames' = 0
    /\ pct_audio_stream' = "started"
    /\ UNCHANGED <<pct_is_recording, pct_thread, pct_captures, pct_cycle, pct_analyses,
                   pct_files, pct_sent, pct_local, pct_env>>
    /\ UNCHANGED triggerRest

\* Lines 261-279: the constructor of the stream raises (_audio_stream keeps its
\* value) or its start does (_audio_stream is the new stream, not started).
\* The error is printed and "Audio error. Check mic." is sent.
pct_start_recording_raises(h) ==
    /\ pct_env.faults > 0
    /\ pct_env' = [pct_env EXCEPT !.faults = @ - 1]
    /\ pct_goes(h, "open", "reset")
    /\ pct_audio_frames' = 0
    /\ \E s \in {pct_audio_stream, "unstarted"} : pct_audio_stream' = s
    /\ pct_notifies("Audio error. Check mic.")
    /\ pct_local' = [pct_local EXCEPT ![h].failed = TRUE]
    /\ UNCHANGED <<pct_is_recording, pct_thread, pct_captures, pct_cycle, pct_analyses,
                   pct_files>>
    /\ UNCHANGED triggerRest

\* Line 280: the flag is reset; the cycle this press began is over.
pct_reset(h) ==
    /\ pct_goes(h, "reset", "check")
    /\ pct_is_recording' = FALSE
    /\ pct_cycle' = pct_cycle \ {pct_local[h].mine}
    /\ UNCHANGED <<pct_audio_stream, pct_audio_frames, pct_thread, pct_captures,
                   pct_analyses, pct_files, pct_sent, pct_local, pct_env>>
    /\ UNCHANGED triggerRest

\* Lines 325-326: if the flag is set, "Capturing & Recording..." is sent. The
\* handler returns.
pct_check(h) ==
    /\ pct_goes(h, "check", "idle")
    /\ IF pct_is_recording
       THEN pct_notifies("Capturing & Recording...")
       ELSE UNCHANGED pct_sent
    /\ UNCHANGED <<pct_is_recording, pct_audio_stream, pct_audio_frames, pct_thread,
                   pct_captures, pct_cycle, pct_analyses, pct_files, pct_local, pct_env>>
    /\ UNCHANGED triggerRest

\* The callback of lines 263-266: the started stream delivers a frame.
pct_callback ==
    /\ pct_audio_stream = "started"
    /\ pct_env.frames > 0
    /\ pct_env' = [pct_env EXCEPT !.frames = @ - 1]
    /\ pct_audio_frames' = pct_audio_frames + 1
    /\ UNCHANGED <<pct_is_recording, pct_audio_stream, pct_thread, pct_captures,
                   pct_cycle, pct_analyses, pct_files, pct_sent, pct_pc, pct_local>>
    /\ UNCHANGED triggerRest

\* Line 330: the second press clears the flag.
pct_clear(h) ==
    /\ pct_goes(h, "clear", "stop")
    /\ pct_is_recording' = FALSE
    /\ UNCHANGED <<pct_audio_stream, pct_audio_frames, pct_thread, pct_captures,
                   pct_cycle, pct_analyses, pct_files, pct_sent, pct_local, pct_env>>
    /\ UNCHANGED triggerRest

\* What _stop_recording returns (lines 286-303): a path when there is a stream
\* and there are frames.
audio_path == pct_audio_stream # "none" /\ pct_audio_frames > 0

\* Lines 331-337: _stop_recording stops and closes the stream and writes the
\* frames to the audio file. With a path the handler reads
\* _image_capture_thread to join it; without one it goes to line 343.
pct_stop_recording(h) ==
    /\ pct_goes(h, "stop", IF audio_path THEN "join" ELSE "failed")
    /\ pct_audio_stream' = IF pct_audio_stream = "none" THEN "none" ELSE "closed"
    /\ pct_files' = IF audio_path THEN [pct_files EXCEPT !.audio = TRUE] ELSE pct_files
    /\ pct_local' = [pct_local EXCEPT ![h].joined = pct_thread]
    /\ UNCHANGED <<pct_is_recording, pct_audio_frames, pct_thread, pct_captures,
                   pct_cycle, pct_analyses, pct_sent, pct_env>>
    /\ UNCHANGED triggerRest

\* The thread the caller joins has finished (or there was none).
joined_finished(h) ==
    IF pct_local[h].joined = 0
    THEN TRUE
    ELSE pct_captures[pct_local[h].joined] = "finished"

\* Lines 337-341: join returns and the analysis thread is started. The cycle
\* is over.
pct_start_analysis(h) ==
    /\ pct_goes(h, "join", "idle")
    /\ joined_finished(h)
    /\ pct_analyses' = pct_analyses + 1
    /\ pct_cycle' = {}
    /\ UNCHANGED <<pct_is_recording, pct_audio_stream, pct_audio_frames, pct_thread,
                   pct_captures, pct_files, pct_sent, pct_local, pct_env>>
    /\ UNCHANGED triggerRest

\* Lines 343-344: no audio; "Recording failed." is sent. The cycle is over.
pct_recording_failed(h) ==
    /\ pct_goes(h, "failed", "idle")
    /\ pct_notifies("Recording failed.")
    /\ pct_cycle' = {}
    /\ UNCHANGED <<pct_is_recording, pct_audio_stream, pct_audio_frames, pct_thread,
                   pct_captures, pct_analyses, pct_files, pct_local, pct_env>>
    /\ UNCHANGED triggerRest

\* Lines 243-255: a capture thread focuses, sleeps and writes the image, or
\* ends with the exception of the camera.
pct_perform_image_capture(id) ==
    /\ pct_captures[id] = "running"
    /\ pct_captures' = [pct_captures EXCEPT ![id] = "finished"]
    /\ \E ok \in BOOLEAN :
        pct_files' = IF ok THEN [pct_files EXCEPT !.image = TRUE] ELSE pct_files
    /\ UNCHANGED <<pct_is_recording, pct_audio_stream, pct_audio_frames, pct_thread,
                   pct_cycle, pct_analyses, pct_sent, pct_pc, pct_local, pct_env>>
    /\ UNCHANGED triggerRest

\* Lines 346-440: an analysis thread sends "Analyzing...", then "Image file
\* missing." when there is no image, else the result or the error; its finally
\* block removes both files.
pct_capture_and_analyze ==
    /\ pct_analyses > 0
    /\ pct_analyses' = pct_analyses - 1
    /\ pct_sent' = [pct_sent EXCEPT
                        !["Analyzing..."] = @ + 1,
                        ![IF pct_files.image THEN "Gemini Result"
                                             ELSE "Image file missing."] = @ + 1]
    /\ pct_files' = [image |-> FALSE, audio |-> FALSE]
    /\ UNCHANGED <<pct_is_recording, pct_audio_stream, pct_audio_frames, pct_thread,
                   pct_captures, pct_cycle, pct_pc, pct_local, pct_env>>
    /\ UNCHANGED triggerRest

\* _raw_packet_handler, lines 305-344, as the caller h runs it.
pct_raw_packet_handler(h) ==
    \/ pct_press(h)
    \/ pct_launch(h)
    \/ pct_set(h)
    \/ pct_start_recording(h)
    \/ pct_start_recording_raises(h)
    \/ pct_reset(h)
    \/ pct_check(h)
    \/ pct_clear(h)
    \/ pct_stop_recording(h)
    \/ pct_start_analysis(h)
    \/ pct_recording_failed(h)

TriggerNext ==
    \/ \E h \in Callers : pct_raw_packet_handler(h)
    \/ pct_callback
    \/ \E id \in DOMAIN pct_captures : pct_perform_image_capture(id)
    \/ pct_capture_and_analyze

TriggerSpec == InitWith({Idle}) /\ [][TriggerNext]_vars

\* =================================== pebble_camera_trigger.py (PebbleGeminiBridge)
\* Lines 121-128: the MIDDLE button starts an image thread; the BOTTOM button
\* sends the voice prompt, or prints why it could not.
pgb_raw_packet_handler ==
    /\ pgb_env.presses > 0
    /\ pgb_env' = [pgb_env EXCEPT !.presses = @ - 1]
    /\ \E button \in {"middle", "bottom", "bottom fails"} :
        /\ pgb_images' = IF button = "middle"
                          THEN [pgb_images EXCEPT ![MaxPresses - pgb_env.presses + 1] = "capture"]
                          ELSE pgb_images
        /\ pgb_sent' = IF button = "bottom"
                        THEN [pgb_sent EXCEPT !["Voice Command"] = @ + 1]
                        ELSE pgb_sent
    /\ UNCHANGED <<pgb_is_recording, pgb_audio_file, pgb_raw, pgb_processing, pgb_image>>
    /\ UNCHANGED bridgeRest

\* Lines 162-172: a chunk of audio arrives. The first chunk of a recording
\* sets the flag and opens the raw file for writing, which truncates it; the
\* chunk is written when there is a file object, and the write to a closed
\* one raises.
pgb_handle_audio_data ==
    /\ pgb_env.chunks > 0
    /\ pgb_env' = [pgb_env EXCEPT !.chunks = @ - 1]
    /\ pgb_is_recording' = TRUE
    /\ pgb_audio_file' = IF pgb_is_recording THEN pgb_audio_file ELSE "open"
    /\ pgb_raw' = IF ~pgb_is_recording THEN [exists |-> TRUE, chunks |-> 1]
                  ELSE IF pgb_audio_file = "open"
                       THEN [pgb_raw EXCEPT !.chunks = @ + 1]
                       ELSE pgb_raw
    /\ UNCHANGED <<pgb_processing, pgb_images, pgb_image, pgb_sent>>
    /\ UNCHANGED bridgeRest

\* Lines 166-169: the open of the raw file raises. The flag is already set;
\* _audio_file keeps its value.
pgb_handle_audio_data_raises ==
    /\ ~pgb_is_recording
    /\ pgb_env.chunks > 0
    /\ pgb_env.faults > 0
    /\ pgb_env' = [pgb_env EXCEPT !.chunks = @ - 1, !.faults = @ - 1]
    /\ pgb_is_recording' = TRUE
    /\ UNCHANGED <<pgb_audio_file, pgb_raw, pgb_processing, pgb_images, pgb_image, pgb_sent>>
    /\ UNCHANGED bridgeRest

\* A handler of the session-ended signal that does not look at the flag.
signal_unguarded == TRUE

\* Lines 178-179: the signal is acted upon only while recording.
signal_while_recording == pgb_is_recording

\* Lines 174-186: the watch signals the end of the voice session. Unless no
\* recording is in progress, the flag is cleared, the file is closed and a
\* processing thread is started.
pgb_stop_recording_and_analyze ==
    /\ pgb_env.signals > 0
    /\ pgb_env' = [pgb_env EXCEPT !.signals = @ - 1]
    /\ IF signal_while_recording
       THEN /\ pgb_is_recording' = FALSE
            /\ pgb_audio_file' = IF pgb_audio_file = "none" THEN "none" ELSE "closed"
            /\ pgb_processing' = pgb_processing + 1
       ELSE UNCHANGED <<pgb_is_recording, pgb_audio_file, pgb_processing>>
    /\ UNCHANGED <<pgb_raw, pgb_images, pgb_image, pgb_sent>>
    /\ UNCHANGED bridgeRest

\* Lines 188-209: a processing thread converts the raw file, uploads it and
\* sends the answer, or the error; its finally block removes the files.
pgb_process_audio_with_gemini ==
    /\ pgb_processing > 0
    /\ pgb_processing' = pgb_processing - 1
    /\ \E title \in IF pgb_raw.exists THEN {"Audio Result", "Gemini Error"}
                                       ELSE {"Gemini Error"} :
        pgb_sent' = [pgb_sent EXCEPT ![title] = @ + 1]
    /\ pgb_raw' = [exists |-> FALSE, chunks |-> 0]
    /\ UNCHANGED <<pgb_is_recording, pgb_audio_file, pgb_images, pgb_image, pgb_env>>
    /\ UNCHANGED bridgeRest

\* Lines 246-249: the file is removed when it exists.
cleanup_file(exists) == FALSE

\* Lines 211-216: an image thread announces the capture and captures to the
\* one path IMAGE_FILE_PATH, or fails in one of the two and sends the error
\* (lines 229-231).
pgb_capture(i) ==
    /\ pgb_images[i] = "capture"
    /\ \/ /\ pgb_sent' = [pgb_sent EXCEPT !["Image Trigger"] = @ + 1]
          /\ pgb_image' = TRUE
          /\ pgb_images' = [pgb_images EXCEPT ![i] = "upload"]
       \/ /\ \E announced \in 0 .. 1 :
                pgb_sent' = [pgb_sent EXCEPT !["Image Trigger"] = @ + announced,
                                             !["Gemini Error"] = @ + 1]
          /\ pgb_image' = pgb_image
          /\ pgb_images' = [pgb_images EXCEPT ![i] = "cleanup"]
    /\ UNCHANGED <<pgb_is_recording, pgb_audio_file, pgb_raw, pgb_processing, pgb_env>>
    /\ UNCHANGED bridgeRest

\* Lines 218-219: the file at IMAGE_FILE_PATH is uploaded; without a file the
\* upload raises and the error is sent (lines 229-231).
pgb_upload(i) ==
    /\ pgb_images[i] = "upload"
    /\ IF pgb_image
       THEN /\ pgb_images' = [pgb_images EXCEPT ![i] = "respond"]
            /\ pgb_sent' = pgb_sent
       ELSE /\ pgb_images' = [pgb_images EXCEPT ![i] = "cleanup"]
            /\ pgb_sent' = [pgb_sent EXCEPT !["Gemini Error"] = @ + 1]
    /\ UNCHANGED <<pgb_is_recording, pgb_audio_file, pgb_raw, pgb_processing, pgb_image,
                   pgb_env>>
    /\ UNCHANGED bridgeRest

\* Lines 221-231: the model is asked and the answer is sent, or the error.
pgb_respond(i) ==
    /\ pgb_images[i] = "respond"
    /\ pgb_images' = [pgb_images EXCEPT ![i] = "cleanup"]
    /\ \E title \in {"Image Result", "Gemini Error"} :
        pgb_sent' = [pgb_sent EXCEPT ![title] = @ + 1]
    /\ UNCHANGED <<pgb_is_recording, pgb_audio_file, pgb_raw, pgb_processing, pgb_image,
                   pgb_env>>
    /\ UNCHANGED bridgeRest

\* Lines 232-233: the finally block removes the file at IMAGE_FILE_PATH.
pgb_cleanup(i) ==
    /\ pgb_images[i] = "cleanup"
    /\ pgb_images' = [pgb_images EXCEPT ![i] = "done"]
    /\ pgb_image' = cleanup_file(pgb_image)
    /\ UNCHANGED <<pgb_is_recording, pgb_audio_file, pgb_raw, pgb_processing, pgb_sent,
                   pgb_env>>
    /\ UNCHANGED bridgeRest

\* Lines 211-233: an image thread takes its next step.
pgb_capture_and_analyze_image ==
    \E i \in 1 .. MaxPresses :
        pgb_capture(i) \/ pgb_upload(i) \/ pgb_respond(i) \/ pgb_cleanup(i)

BridgeNext ==
    \/ pgb_raw_packet_handler
    \/ pgb_handle_audio_data
    \/ pgb_handle_audio_data_raises
    \/ pgb_stop_recording_and_analyze
    \/ pgb_process_audio_with_gemini
    \/ pgb_capture_and_analyze_image

BridgeSpec == InitWith({Idle}) /\ [][BridgeNext]_vars

\* ================================================================ claims
Producers == {"listen_audio", "get_frames"}

\* ------------------------------------------------------------------- C1
\* C1: the items handed to the remote session are handed over in the order
\* in which they were put on the outbound queue, whichever task put them.
C1_ForwardedInEnqueueOrder ==
    \A r \in Sessions : \A i, j \in DOMAIN forwarded[r] :
        i < j => forwarded[r][i].n < forwarded[r][j].n

\* More items than the queue holds were forwarded, of both kinds.
C1_Witness ==
    \E r \in Sessions :
        /\ Len(forwarded[r]) > OutQueueMaxsize
        /\ \E i, j \in DOMAIN forwarded[r] :
              forwarded[r][i].kind = "get_frames" /\ forwarded[r][j].kind = "listen_audio"

\* ------------------------------------------------------------------- C2
\* C2: an outbound queue never holds more than OutQueueMaxsize (10) items.
C2_OutQueueBounded ==
    \A q \in Sessions : Len(out_queue[q]) <= OutQueueMaxsize

\* The queue is full and both producers are suspended in put on it.
C2_Witness ==
    \E s \in Sessions :
        /\ \A k \in Producers : pc[s][k] = "put" /\ held[s][k] = s
        /\ Len(out_queue[s]) = OutQueueMaxsize

\* ------------------------------------------------------------------- C3
\* C3: a producer suspended in put is woken only by a step that removes an
\* item from an outbound queue or that cancels tasks; it leaves the put only
\* by appending exactly its item to a queue that had room, or by the
\* cancellation of its group, which enqueues nothing. No step changes an
\* outbound queue other than by appending one item or by handing its head to
\* the remote: nothing is discarded or overwritten.
C3_PutBlocksAndKeeps ==
    [][ /\ \A s \in Sessions : \A k \in Producers :
              /\ pc[s][k] = "put" /\ ~woken(s, k) /\ woken(s, k)' =>
                    \/ \E q \in Sessions : out_queue[q] # <<>> /\ out_queue'[q] = Tail(out_queue[q])
                    \/ \E x \in Sessions : \E y \in Kinds :
                          pc[x][y] \notin Terminal /\ pc'[x][y] \in Terminal
              /\ pc[s][k] = "put" /\ pc'[s][k] # "put" =>
                    \/ /\ Len(out_queue[held[s][k]]) < OutQueueMaxsize
                       /\ out_queue'[held[s][k]] =
                             Append(out_queue[held[s][k]],
                                    [q |-> held[s][k], n |-> nput + 1, kind |-> k])
                    \/ /\ pc'[s][k] = cancelled_pc(k, "put")
                       /\ \A x \in Kinds : pc'[s][x] \in Terminal
                       /\ out_queue' = out_queue
        /\ \A q \in Sessions :
              \/ out_queue'[q] = out_queue[q]
              \/ /\ Len(out_queue'[q]) = Len(out_queue[q]) + 1
                 /\ SubSeq(out_queue'[q], 1, Len(out_queue[q])) = out_queue[q]
              \/ /\ out_queue[q] # <<>>
                 /\ out_queue'[q] = Tail(out_queue[q])
                 /\ \E r \in Sessions : forwarded'[r] = Append(forwarded[r], Head(out_queue[q]))
      ]_vars

\* A producer that was suspended on the full queue has enqueued its item:
\* the queue is full again, with the item of a later put at its tail.
C3_Witness ==
    \E q \in Sessions :
        /\ Len(out_queue[q]) = OutQueueMaxsize
        /\ out_queue[q][OutQueueMaxsize].n > OutQueueMaxsize
        /\ forwarded[q] # <<>>

\* ------------------------------------------------------------------- C4
\* C4: the step in which receive_audio observes turn-complete leaves the
\* inbound queue (the one self._audio_in_queue names) empty, whatever it
\* held, and hands no chunk to playback: the drain is one step of the loop.
C4_DrainedAtTurnComplete ==
    [][ \A s \in Sessions : turns'[s] # turns[s] =>
            /\ audio_in_queue'[audio_in_queue_ref'] = <<>>
            /\ played' = played ]_vars

\* A turn completed while two chunks of it were still queued.
C4_Witness ==
    \E s \in Sessions : turns[s] > 0 /\ Cardinality(stale) >= 2

\* ------------------------------------------------------------------- C5
\* C5: a chunk that had not been handed to stream.write when its turn
\* completed is never handed to stream.write.
C5_NoStalePlayback ==
    \A i \in DOMAIN played : played[i] \notin stale

\* A chunk was discarded at its turn's end, and playback went on afterwards
\* with a chunk that arrived later.
C5_Witness ==
    \E c \in stale : \E i \in DOMAIN played : played[i].id > c.id

\* ------------------------------------------------------------------- C6
\* C6 as stated: once a turn has completed, playback has been handed exactly
\* the chunks received in that turn, in order.
C6_PlaybackGetsEveryChunk ==
    \A s \in Sessions : \A T \in 1..turns[s] :
        SelectSeq(played, LAMBDA c : c.s = s /\ c.turn = T)
            = SelectSeq(received, LAMBDA c : c.s = s /\ c.turn = T)

\* C6 amended: playback is handed chunks of a turn in the order received and
\* each at most once, but only those that were dequeued before the turn
\* completed; and the inbound queue in use holds no chunk of a completed
\* turn.
C6_PlaybackInOrderQueueCleared ==
    /\ \A i, j \in DOMAIN played :
          i < j /\ played[i].s = played[j].s /\ played[i].turn = played[j].turn
              => played[i].id < played[j].id
    /\ \A c \in Range(played) : c \in Range(received)
    /\ audio_in_queue_ref # 0 =>
          \A c \in Range(audio_in_queue[audio_in_queue_ref]) : c.turn > turns[c.s]

\* A turn of two chunks completed: one was played, the other discarded.
C6_Witness ==
    \E s \in Sessions :
        /\ turns[s] = 1
        /\ Len(received) = 2
        /\ Len(played) = 1
        /\ Cardinality(stale) = 1
        /\ audio_in_queue[audio_in_queue_ref] = <<>>

\* ------------------------------------------------------------------- C7
\* C7 as stated: the tasks of at most one session run at any time.
Active(s) == main[s] = "tg" /\ \E k \in Kinds : pc[s][k] \notin Terminal
C7_AtMostOneActive ==
    Cardinality({s \in Sessions : Active(s)}) <= 1

\* ------------------------------------------------------------------- C8
\* C8: once a stop toggle has asked for the cancellation of a session whose
\* TaskGroup is running, every one of its five tasks eventually terminates.
C8_CancelTerminatesTasks ==
    \A s \in Sessions :
        (stops[s] > 0 /\ main[s] = "tg") ~> (\A k \in Kinds : pc[s][k] \in Terminal)

\* The stop toggle came while listen_audio was suspended in put on the full
\* queue, play_audio in get on the empty queue, get_frames in the capture,
\* send_realtime in the send and receive_audio in the receive; the
\* cancellation is scheduled and no task has ended yet.
C8_Witness ==
    \E s \in Sessions :
        /\ stops[s] > 0
        /\ main[s] = "tg"
        /\ pc[s]["listen_audio"] = "put"
        /\ Len(out_queue[held[s]["listen_audio"]]) = OutQueueMaxsize
        /\ pc[s]["play_audio"] = "get"
        /\ audio_in_queue[held[s]["play_audio"]] = <<>>
        /\ pc[s]["get_frames"] = "capture"
        /\ pc[s]["send_realtime"] = "send"
        /\ pc[s]["receive_audio"] = "recv"

\* ------------------------------------------------------------------- C9
\* C9 as stated: when a session was cancelled, its teardown has finished and
\* no other session is under way, the camera is stopped and the session's
\* microphone and speaker streams are closed.
C9_DevicesReleased ==
    \A s \in Sessions :
        /\ fut[s] = "cancelled"
        /\ main[s] = "done"
        /\ \A x \in Sessions : main[x] \in {"none", "done"}
        => /\ ~picam_started
           /\ mic[s] \in {"none", "closed"}
           /\ spk[s] \in {"none", "closed"}

\* ------------------------------------------------------------------ C10
\* C10 as stated: the call of _toggle_session that follows a stop request
\* starts no session.
C10_SecondStopStartsNothing ==
    [][ \A t \in Threads :
            tpc[t] = "idle" /\ tpc'[t] = "start" => last_toggle # "stop" ]_vars

\* C10, the part of it that holds: a cancel of a session future that is done
\* already changes nothing, and _session_done_callback runs at most once for
\* a session.
C10_SecondCancelIsNoop ==
    [][ /\ \A s \in Sessions :
              /\ next_ready(callback("future_cancel", s))
              /\ fut[s] # "pending"
              /\ ready' = Tail(ready)
              => UNCHANGED <<ctlVars, refVars, futVars, taskVars, outVars, inVars, devVars, togVars>>
        /\ \A s \in Sessions : ended'[s] <= 1
      ]_vars

\* Two stop requests were made for one session, and both cancels have run.
C10_Witness ==
    \E s \in Sessions :
        /\ stops[s] = 2
        /\ fut[s] = "cancelled"
        /\ ended[s] = 1
        /\ ready = <<>>

\* ------------------------------------------------------------------ C11
\* C11 as stated: a session whose end has been reported (its
\* _session_done_callback has run, the flag is clear and no future is stored,
\* so that a toggle would start a session) has no task still running; and
\* no task of a session has finished while another task of it still runs.
Running(s) == {k \in Kinds : pc[s][k] \notin Terminal \cup {"none"}}
C11_CancelledAsUnit ==
    \A s \in Sessions :
        /\ ended[s] > 0 /\ ~is_session_running /\ session_future = 0
              => Running(s) = {}
        /\ (\E k \in Kinds : pc[s][k] \in Terminal) => Running(s) = {}

\* ------------------------------------------------------------------ C12
\* C12: the step in which a capture failure reaches get_frames prints the
\* error once and ends get_frames normally; the other four tasks stay where
\* they are, nothing is cancelled or scheduled, and the flag, the future and
\* the run_live_session task are untouched.
C12_CaptureFailureEndsCaptureOnly ==
    [][ \A s \in Sessions :
            runs(s, "get_frames", "capture", "error") /\ pc'[s]["get_frames"] # "capture"
            => /\ pc'[s]["get_frames"] = "done"
               /\ log'["Error getting frame"] = log["Error getting frame"] + 1
               /\ \A k \in Kinds \ {"get_frames"} : pc'[s][k] = pc[s][k]
               /\ ready' = Tail(ready)
               /\ UNCHANGED <<is_session_running, session_future, fut, main, errors>>
      ]_vars

\* After a capture failure the session goes on without the camera: the other
\* four tasks run, the microphone chunk was forwarded and a reply chunk was
\* received.
C12_Witness ==
    \E s \in Sessions :
        /\ log["Error getting frame"] = 1
        /\ pc[s]["get_frames"] = "done"
        /\ \A k \in Kinds \ {"get_frames"} : pc[s][k] \notin Terminal \cup {"none", "new"}
        /\ is_session_running /\ main[s] = "tg" /\ ~errors[s]
        /\ forwarded[s] # <<>>
        /\ received # <<>>

\* ------------------------------------------------------------------ C13
\* Where each device task awaits its device's I/O.
DeviceIO == [get_frames |-> "capture", listen_audio |-> "read", play_audio |-> "write"]

\* C13 as stated, its first half: the step in which a device I/O failure
\* (camera capture, microphone read, speaker write) reaches its task ends
\* the task and cancels every other task of the session.
C13_DeviceFailureCancelsSession ==
    [][ \A s \in Sessions : \A k \in DOMAIN DeviceIO :
            runs(s, k, DeviceIO[k], "error") /\ pc'[s][k] # pc[s][k]
            => \A x \in Kinds : pc'[s][x] \in Terminal
      ]_vars

\* ------------------------------------------------------------------ C14
\* C14 as stated: when the future of a session one of whose tasks ended with
\* an exception completes, every task of the session has ended, the
\* exceptions of its tasks (the ExceptionGroup of the TaskGroup) have been
\* printed, the flag is clear, no future is stored and no session was
\* started by that step.
C14_EscapedExceptionReported ==
    [][ \A s \in Sessions :
            errors[s] /\ fut[s] = "pending" /\ main[s] = "returned" /\ main'[s] = "done"
            => /\ \A k \in Kinds : pc'[s][k] \in Terminal
               /\ \E i \in DOMAIN reported'[s] : reported'[s][i].exc = "ExceptionGroup"
               /\ ~is_session_running' /\ session_future' = 0
               /\ nsess' = nsess
      ]_vars

\* ------------------------------------------------------------------ C15
\* Every outbound item is in one place only: in a queue, or handed once to
\* one remote session.
NoItemTwice ==
    /\ \A q, r \in Sessions : \A i \in DOMAIN forwarded[q] : \A j \in DOMAIN forwarded[r] :
          q # r \/ i # j => forwarded[q][i].n # forwarded[r][j].n
    /\ \A q \in Sessions : \A i, j \in DOMAIN out_queue[q] :
          i # j => out_queue[q][i].n # out_queue[q][j].n
    /\ \A q, r \in Sessions : \A i \in DOMAIN out_queue[q] : \A j \in DOMAIN forwarded[r] :
          out_queue[q][i].n # forwarded[r][j].n

\* C15: the step in which a send failure reaches send_realtime prints the
\* error once and goes on with the loop: the task is in its next send or
\* suspended in get (it ends only when the flag was cleared), no other task
\* moves, nothing is cancelled, nothing is enqueued, and a queue changes
\* only by losing its head to the next send. No item is ever in two places
\* or handed over twice: the failed item is neither retried nor re-enqueued.
C15_SendFailureSkipsItem ==
    [][ /\ NoItemTwice'
        /\ \A s \in Sessions :
              runs(s, "send_realtime", "send", "error") /\ ~woken(s, "send_realtime")'
              => /\ log'["Error sending data"] = log["Error sending data"] + 1
                 /\ pc'[s]["send_realtime"] \in
                       (IF is_session_running THEN {"send", "get"} ELSE {"done"})
                 /\ \A k \in Kinds \ {"send_realtime"} : pc'[s][k] = pc[s][k]
                 /\ UNCHANGED <<is_session_running, session_future, fut, main, errors, nput>>
                 /\ \A q \in Sessions :
                       \/ out_queue'[q] = out_queue[q]
                       \/ /\ out_queue[q] # <<>>
                          /\ out_queue'[q] = Tail(out_queue[q])
                          /\ forwarded'[session] = Append(forwarded[session], Head(out_queue[q]))
      ]_vars

\* The send of the first item failed and the task is sending the second.
C15_Witness ==
    \E s \in Sessions :
        /\ log["Error sending data"] = 1
        /\ Len(forwarded[s]) = 2
        /\ pc[s]["send_realtime"] = "send"
        /\ is_session_running /\ main[s] = "tg" /\ ~errors[s]

\* ------------------------------------------------------------------ C16
\* C16: the step in which a failure of the reply stream reaches
\* receive_audio prints the error once and goes on to await the next turn
\* (the task ends only when the flag was cleared); no other task moves,
\* nothing is cancelled or scheduled, and the flag, the future and the
\* run_live_session task are untouched.
C16_ReceiveFailureNextTurn ==
    [][ \A s \in Sessions :
            runs(s, "receive_audio", "recv", "error") /\ ~woken(s, "receive_audio")'
            => /\ log'["Error receiving audio"] = log["Error receiving audio"] + 1
               /\ pc'[s]["receive_audio"] = (IF is_session_running THEN "recv" ELSE "done")
               /\ \A k \in Kinds \ {"receive_audio"} : pc'[s][k] = pc[s][k]
               /\ ready' = Tail(ready)
               /\ UNCHANGED <<is_session_running, session_future, fut, main, errors>>
      ]_vars

\* The reply stream failed once; receive_audio awaits a reply again, all five
\* tasks run, and a chunk of the reply was received.
C16_Witness ==
    \E s \in Sessions :
        /\ log["Error receiving audio"] = 1
        /\ pc[s]["receive_audio"] = "recv"
        /\ \A k \in Kinds : pc[s][k] \notin Terminal \cup {"none", "new"}
        /\ is_session_running /\ main[s] = "tg" /\ ~errors[s]
        /\ received # <<>>

\* ------------------------------------------------------------------ C17
\* C17: the step that handles an audio part appends exactly that payload to
\* the tail of the inbound queue self._audio_in_queue names, touches no
\* other queue and prints nothing; the step that handles a text part prints
\* it and touches no queue. Every inbound queue holds its chunks in order of
\* arrival, each once, and only chunks that were received as audio.
C17_PartsDemultiplexed ==
    [][ /\ \A s \in Sessions :
              runs(s, "receive_audio", "recv", "data") /\ ~woken(s, "receive_audio")'
              => /\ received' = Append(received, chunk(s))
                 /\ audio_in_queue' =
                       [audio_in_queue EXCEPT ![audio_in_queue_ref] = Append(@, chunk(s))]
                 /\ log' = log
        /\ \A s \in Sessions :
              runs(s, "receive_audio", "recv", "text") /\ ~woken(s, "receive_audio")'
              => /\ log'["text"] = log["text"] + 1
                 /\ UNCHANGED <<audio_in_queue, received>>
        /\ \A q \in Sessions :
              /\ \A i, j \in DOMAIN audio_in_queue'[q] :
                    i < j => audio_in_queue'[q][i].id < audio_in_queue'[q][j].id
              /\ \A i \in DOMAIN audio_in_queue'[q] : audio_in_queue'[q][i] \in Range(received')
      ]_vars

\* A text part was printed and two audio parts are queued, in order.
C17_Witness ==
    /\ log["text"] = 1
    /\ audio_in_queue_ref # 0
    /\ Len(audio_in_queue[audio_in_queue_ref]) = 2
    /\ Len(received) = 2

\* ------------------------------------------------------------------ C18
\* C18: the chunks handed to the speaker are a subsequence of the chunks
\* received: each one was received, they are written in the order they
\* arrived, none is written twice, and one step hands over at most one.
C18_PlayedInReceivedOrder ==
    [][ /\ \A i \in DOMAIN played' :
              /\ played'[i].id \in DOMAIN received'
              /\ received'[played'[i].id] = played'[i]
        /\ \A i, j \in DOMAIN played' : i < j => played'[i].id < played'[j].id
        /\ \/ played' = played
           \/ \E c \in Range(received) : played' = Append(played, c)
      ]_vars

\* Two chunks of one turn were written, one after the other.
C18_Witness ==
    \E i, j \in DOMAIN played :
        /\ i < j
        /\ played[i].s = played[j].s
        /\ played[i].turn = played[j].turn
        /\ \E s \in Sessions : pc[s]["play_audio"] = "get" /\ s = played[j].s

\* ------------------------------------------------------------------ C19
\* C19 as stated: a queue belongs to the session that created it. Its
\* contents and the tasks suspended on it change only in a step of that
\* session's own tasks, and a new queue is empty when it is installed.
C19_QueuesPrivate ==
    [][ /\ \A q \in Sessions :
              \/ /\ out_queue'[q] = out_queue[q]
                 /\ audio_in_queue'[q] = audio_in_queue[q]
                 /\ out_getters'[q] = out_getters[q]
                 /\ out_putters'[q] = out_putters[q]
                 /\ in_getters'[q] = in_getters[q]
              \/ ready # <<>> /\ Head(ready).s = q
        /\ out_queue_ref' # out_queue_ref => out_queue'[out_queue_ref'] = <<>>
        /\ audio_in_queue_ref' # audio_in_queue_ref
              => audio_in_queue'[audio_in_queue_ref'] = <<>>
      ]_vars

\* ------------------------------------------------------------------ C20
\* The positions at which a task has its device in use: get_frames from
\* self._picam2.start() to its end, listen_audio and play_audio from the
\* call that opens their stream to their end.
Using ==
    [get_frames |-> {"capture", "put", "sleep"},
     listen_audio |-> {"open", "read", "put"},
     play_audio |-> {"open", "get", "write"}]

Holders(k) == {s \in Sessions : pc[s][k] \in Using[k]}

\* C20 as stated: the camera, the microphone and the speaker are each in
\* use by at most one task at any time.
C20_DevicesExclusive ==
    \A k \in DOMAIN Using : Cardinality(Holders(k)) <= 1

\* ------------------------------------------------------------------ C21
\* The tasks that have a send pending on remote session r, and those that
\* await the next reply of r.
Sending(r) ==
    {s \in Sessions : pc[s]["send_realtime"] = "send" /\ held[s]["send_realtime"] = r}

Receiving(r) ==
    {s \in Sessions : pc[s]["receive_audio"] = "recv" /\ held[s]["receive_audio"] = r}

\* C21 as stated: a remote session has at most one task sending on it and at
\* most one task receiving from it.
C21_OneSenderOneReceiver ==
    \A r \in Sessions : Cardinality(Sending(r)) <= 1 /\ Cardinality(Receiving(r)) <= 1

\* ------------------------------------------------------------------ C22
\* C22: a stop request for a session leads to that session being reported
\* ended. It is reported once, by a step that leaves is_session_running
\* false and _session_future cleared. A toggle that finds the flag false
\* takes the start branch, and the session it starts is a new one, which
\* connects before it has tasks. A session that was reported ended is never
\* the stored future again and its future stays done.
C22_StopLeadsToEnded ==
    /\ \A s \in Sessions : (stops[s] > 0) ~> (ended[s] = 1)
    /\ [][ /\ \A s \in Sessions :
                 ended'[s] # ended[s]
                 => /\ ended[s] = 0 /\ ended'[s] = 1
                    /\ ~is_session_running'
                    /\ session_future' = 0
           /\ \A t \in Threads :
                 tpc[t] = "idle" /\ tpc'[t] # "idle" /\ ~is_session_running
                 => tpc'[t] = "start"
           /\ \A s \in Sessions :
                 /\ main[s] = "none" /\ main'[s] # "none"
                    => /\ s = nsess + 1 /\ nsess' = s
                       /\ main'[s] = "scheduled" /\ fut'[s] = "pending"
                       /\ session_future' = s
                       /\ \E t \in Threads : tpc[t] = "submit" /\ tpc'[t] = "idle"
                 /\ main'[s] = "tg" /\ main[s] # "tg" => main[s] = "connecting"
                 /\ main'[s] = "connecting" /\ main[s] # "connecting" => main[s] = "scheduled"
                 /\ ended[s] > 0
                    => /\ session_future' # s
                       /\ fut[s] \in {"cancelled", "finished"}
                       /\ fut'[s] = fut[s]
         ]_vars

\* Session 1 was stopped and reported ended; the next toggle started session
\* 2, which is connecting.
C22_Witness ==
    /\ stops[1] = 1
    /\ ended[1] = 1
    /\ fut[1] = "cancelled"
    /\ nsess = 2
    /\ session_future = 2
    /\ main[2] = "connecting"

\* ------------------------------------------------------------------ C23
\* Session s is running: it was submitted and its future is not done, or
\* tasks of it have not ended.
InProgress(s) == fut[s] = "pending" \/ Running(s) # {}

\* C23 as stated: a call of _toggle_session takes the stop branch when a
\* session is running and the start branch when none is; the start branch
\* submits exactly one session, and the stop branch requests the
\* cancellation of the running session and submits none.
C23_ToggleStartsOrStops ==
    [][ \A t \in Threads :
          /\ tpc[t] = "idle" /\ tpc'[t] # "idle"
             => tpc'[t] = IF \E s \in Sessions : InProgress(s) THEN "stop" ELSE "start"
          /\ tpc[t] = "submit" /\ tpc'[t] = "idle" => nsess' = nsess + 1
          /\ tpc[t] = "stop" /\ tpc'[t] = "idle"
             => /\ nsess' = nsess
                /\ \E s \in Sessions : InProgress(s) /\ stops'[s] = stops[s] + 1
      ]_vars

\* ------------------------------------------------------------------ C24
\* C24 as stated: when connect raises, no task of the session exists, the
\* flag is cleared, and the connect failure is what gets reported: it is
\* printed at line 363 or it is the exception the coroutine ends with, which
\* line 380 prints. When the future of a session that never had tasks
\* completes, the flag is clear and no future is stored.
C24_ConnectFailureReported ==
    [][ \A s \in Sessions :
          /\ main[s] = "connecting" /\ next_ready(step(s, Main, "error"))
             /\ main'[s] = "returned"
             => /\ \A k \in Kinds : pc'[s][k] = "none"
                /\ ~is_session_running'
                /\ \/ raised'[s] = "ConnectError"
                   \/ \E i \in DOMAIN reported'[s] : reported'[s][i].exc = "ConnectError"
          /\ /\ main[s] = "returned" /\ main'[s] = "done" /\ fut[s] = "pending"
             /\ \A k \in Kinds : pc[s][k] = "none"
             => /\ ~is_session_running' /\ session_future' = 0
                /\ ended'[s] = 1
      ]_vars

\* ------------------------------------------------------------------ C25
\* C25: when the watch did not connect, the Pebble thread never enters
\* _toggle_session, no notification is ever sent, and sessions are started
\* and stopped by the keyboard thread: a session appears only by its submit,
\* and a stop is requested only by its stop branch.
C25_KeyboardOnly ==
    [][ ~env.pebble
        => /\ tpc'["pebble"] = "idle"
           /\ log'["Session Active"] = 0 /\ log'["Session Ended"] = 0
           /\ nsess' # nsess => tpc["keyboard"] = "submit" /\ tpc'["keyboard"] = "idle"
           /\ stops' # stops => tpc["keyboard"] = "stop" /\ tpc'["keyboard"] = "idle"
      ]_vars

\* Without the watch, Enter started a session whose tasks ran, Enter stopped
\* it, its tasks ended and it was reported ended.
C25_Witness ==
    /\ ~env.pebble
    /\ nsess = 1
    /\ forwarded[1] # <<>>
    /\ stops[1] = 1
    /\ ended[1] = 1
    /\ main[1] = "done"
    /\ \A k \in Kinds : pc[1][k] \in Terminal

\* ------------------------------------------------------------------ C26
\* C26: a statement of the cycle that raises an Exception leads to the
\* cleanup, not out of the loop; the cleanup of a cycle that was not
\* interrupted leads back to input(); whenever the loop waits at input() the
\* image file is absent and the camera is started; and once the loop is left
\* the camera is stopped.
C26_CycleErrorsContained ==
    [][ /\ pca_pc \in Stages /\ Len(pca_log') > Len(pca_log) => pca_pc' = "cleanup"
        /\ pca_pc = "cleanup" /\ pca_pending = "none" => pca_pc' = "input"
        /\ pca_pc' = "input" => ~pca_image' /\ pca_started'
        /\ pca_pc' = "exited" => ~pca_started'
        /\ pca_pc' = "exited" => pca_pending' \in {"KeyboardInterrupt", "EOFError"}
      ]_vars

\* The first cycle raised after the image was written, the second printed an
\* answer, and the loop waits for Enter again.
C26_Witness ==
    /\ pca_pc = "input"
    /\ pca_log = <<"error", "answer">>
    /\ pca_enters = MaxCycles - 2

\* ------------------------------------------------------------------ C27
\* C27: a press of the MIDDLE button while nothing is being recorded starts a
\* recording, and a press while a recording is in progress stops it and hands
\* the recorded audio to an analysis thread.
C27_PressTogglesRecording ==
    [][ pgc_env'.presses < pgc_env.presses =>
            IF pgc_listening
            THEN ~pgc_listening' /\ (pgc_buffer # <<>> => pgc_analyses' = pgc_analyses + 1)
            ELSE pgc_listening'
      ]_vars

\* ------------------------------------------------------------------ C28
\* C28: when an analysis thread is started, every capture thread that a first
\* press of the cycle launched has finished.
C28_AnalysisAfterCapture ==
    [][ pct_analyses' > pct_analyses =>
            \A id \in pct_cycle : pct_captures[id] = "finished"
      ]_vars

\* ------------------------------------------------------------------ C29
\* C29: when the handler of a first press whose audio stream failed to open
\* returns, the recording flag is false and the handler has sent no
\* "Capturing & Recording..." notification; and while that handler is between
\* the failure and its return, no other press is taken for a second press.
C29_FailedOpenIsUndone ==
    [][ \A h \in Callers :
          /\ pct_local[h].failed /\ pct_pc[h] = "check" /\ pct_pc'[h] = "idle" =>
                /\ ~pct_is_recording'
                /\ pct_sent'["Capturing & Recording..."] = pct_sent["Capturing & Recording..."]
          /\ pct_local[h].failed /\ pct_pc[h] \in {"reset", "check"} =>
                \A g \in Callers \ {h} :
                    pct_pc[g] = "idle" => pct_pc'[g] \in {"idle", "launch"}
      ]_vars

\* ------------------------------------------------------------------ C30
\* C30: a session-ended signal that arrives while nothing is being recorded
\* changes nothing (the flag stays false, no file is closed, no thread is
\* started); one that arrives during a recording clears the flag and starts
\* exactly one processing thread.
C30_SessionEndedOnlyWhileRecording ==
    [][ pgb_env'.signals < pgb_env.signals =>
            IF pgb_is_recording
            THEN /\ ~pgb_is_recording'
                 /\ pgb_processing' = pgb_processing + 1
                 /\ pgb_audio_file' # "open"
            ELSE /\ ~pgb_is_recording'
                 /\ UNCHANGED <<pgb_audio_file, pgb_raw, pgb_processing, pgb_images, pgb_image, pgb_sent>>
      ]_vars

\* Two signals arrived and no button was pressed; one of them ended a
\* recording, whose one thread sent its answer; the other found no recording.
C30_Witness ==
    /\ pgb_env.signals = MaxSignals - 2
    /\ pgb_env.presses = MaxPresses
    /\ pgb_sent["Audio Result"] = 1
    /\ pgb_sent["Gemini Error"] = 0
    /\ pgb_processing = 0
    /\ ~pgb_is_recording

\* ------------------------------------------------------------------ C31
\* C31: when a voice session ends, the file written for transcription holds
\* the chunks the watch sent since the session's setup, in the order of their
\* arrival and each once, and an analysis is started; when no chunk arrived,
\* no file is written and no analysis is started.
C31_WrittenIsHeard ==
    [][ pgc_watch = "session" /\ pgc_watch' = "idle" =>
            IF pgc_heard = <<>>
            THEN UNCHANGED <<pgc_file, pgc_analyses>>
            ELSE /\ pgc_file' = [exists |-> TRUE, content |-> pgc_heard]
                 /\ pgc_analyses' = pgc_analyses + 1
      ]_vars

\* The first voice session received the first chunk; the second session has
\* ended and what it wrote is the second chunk alone.
C31_Witness ==
    /\ pgc_env.sessions = MaxVoiceSessions - 2
    /\ pgc_watch = "idle"
    /\ pgc_file.content = <<2>>

\* ------------------------------------------------------------------ C32
\* C32: whenever receive_audio goes on to await a new turn, after the turn's
\* stream ended or after the stream raised, the inbound queue that
\* self._audio_in_queue names is empty.
C32_QueueEmptyAtNewTurn ==
    [][ \A s \in Sessions :
            /\ \/ runs(s, "receive_audio", "recv", "turn_complete")
               \/ runs(s, "receive_audio", "recv", "error")
            /\ ~woken(s, "receive_audio")'
            /\ pc'[s]["receive_audio"] = "recv"
            => audio_in_queue'[audio_in_queue_ref'] = <<>>
      ]_vars

\* ------------------------------------------------------------------ C33
\* C33: while a later session is the one the controller holds, with the flag
\* set, no stop requested for it and its future pending, neither the finally
\* block of an earlier session's run_live_session nor that session's
\* _session_done_callback clears the flag or the stored future.
C33_TeardownSparesLaterSession ==
    [][ \A e, s \in Sessions :
            /\ e < s
            /\ session_future = s /\ is_session_running
            /\ stops[s] = 0 /\ fut[s] = "pending"
            /\ \/ main[e] # "done" /\ main'[e] = "done"
               \/ ended'[e] > ended[e]
            => is_session_running' /\ session_future' = s
      ]_vars

\* ------------------------------------------------------------------ C34
\* Something of session q waits for send_realtime: an item in its outbound
\* queue, or a producer suspended in put on the full queue.
Backlog(q) ==
    \/ out_queue[q] # <<>>
    \/ \E k \in Producers : pc[q][k] = "put"

\* C34: with the loop running fairly, whatever waits for send_realtime in a
\* session whose future is pending is eventually served, unless the session
\* ends: the queue is emptied and no producer is left suspended in put. The
\* items of a run are finitely many and the queue is first in, first out, so
\* this says of every item that it is dequeued. And the step that takes an
\* item off a queue wakes the producer that has waited longest on it, and the
\* step that puts an item on a queue wakes the consumer that waits on it.
C34_EnqueuedIsDequeued ==
    /\ \A q \in Sessions :
          (Backlog(q) /\ fut[q] = "pending") ~> (~Backlog(q) \/ fut[q] # "pending")
    /\ [][ \A q \in Sessions :
              /\ out_queue[q] # <<>> /\ out_queue'[q] = Tail(out_queue[q])
              /\ out_putters[q] # <<>>
              => /\ \E i \in DOMAIN ready' :
                        ready'[i] = step(Head(out_putters[q]).s, Head(out_putters[q]).k, "wake")
                 /\ out_putters'[q] = Tail(out_putters[q])
          ]_vars
    /\ [][ \A q \in Sessions :
              /\ Len(out_queue'[q]) = Len(out_queue[q]) + 1
              /\ out_getters[q] # <<>>
              => /\ \E i \in DOMAIN ready' :
                        ready'[i] = step(Head(out_getters[q]).s, Head(out_getters[q]).k, "wake")
                 /\ out_getters'[q] = Tail(out_getters[q])
          ]_vars

\* The session is still under way; more items than the queue holds were
\* enqueued, a producer having waited on the full queue, and all of them
\* were taken off and handed to the remote.
C34_Witness ==
    \E q \in Sessions :
        /\ fut[q] = "pending" /\ stops[q] = 0
        /\ nput > OutQueueMaxsize
        /\ Len(forwarded[q]) = nput
        /\ out_queue[q] = <<>>

\* ------------------------------------------------------------------ C35
\* C35: when the event loop stops after a shutdown, every session has been
\* torn down: each run_live_session task has finished, no relay task is left
\* unfinished, the flag is cleared and no microphone or speaker stream of a
\* session is open.
C35_CleanupBeforeLoopStops ==
    [][ loop_state # "stopped" /\ loop_state' = "stopped" =>
            \A s \in Sessions :
                /\ main'[s] \in {"none", "done"}
                /\ \A k \in Kinds : pc'[s][k] \in Terminal \cup {"none"}
                /\ ~is_session_running'
                /\ mic'[s] # "open" /\ spk'[s] # "open"
      ]_vars

\* ------------------------------------------------------------------ C36
\* C36: an image thread whose capture succeeded finds the image file present
\* when it uploads it, whatever the other image threads do in between.
C36_UploadFindsImage ==
    [][ \A i \in 1 .. MaxPresses :
            pgb_images[i] = "upload" /\ pgb_images'[i] # "upload" => pgb_image
      ]_vars

=============================================================================
